---------------------------- MODULE Spec2Model ----------------------------
(***************************************************************************)
(* Model of the cratedocs documentation router                             *)
(* (src/src/tools/cargo_docs/mod.rs): the DocCache store, the five tool    *)
(* operations of CargoDocRouter and the two text engines (example          *)
(* extraction, relationship analysis).                                     *)
(*                                                                         *)
(* TEXT.  A Rust String is modelled as a sequence of lexemes.  A lexeme is *)
(* a TLA+ string standing for a run of characters that the code never      *)
(* looks inside: every character or word that some pattern of the code     *)
(* (contains, find, starts_with, split, trim, ==) can match is a lexeme of *)
(* its own ("#", ":", "fn", " ", "example", ...), and the remaining prose  *)
(* is kept in lexemes that contain none of those patterns.  Concatenation  *)
(* of Strings is concatenation of sequences, so composed keys and URLs are *)
(* equal exactly when the Rust strings are equal.  The backquote cannot be *)
(* written in a TLA+ string: the lexeme "'" stands for one backquote and   *)
(* "'''" for the three backquotes of a code fence.                         *)
(***************************************************************************)
EXTENDS Integers, Sequences, FiniteSets, TLC

(***************************************************************************)
(* str / String primitives                                                 *)
(***************************************************************************)
NL == "\n"

IsWhitespace(ch) == ch \in {" ", NL}

\* s[from..] (1-based, from may be Len(s)+1)
DropFirst(s, n) == SubSeq(s, n + 1, Len(s))

TakeFirst(s, n) == SubSeq(s, 1, n)

\* str::starts_with(pat)
StartsWith(s, pat) ==
    /\ Len(pat) <= Len(s)
    /\ SubSeq(s, 1, Len(pat)) = pat

\* str::ends_with(pat)
EndsWith(s, pat) ==
    /\ Len(pat) <= Len(s)
    /\ SubSeq(s, Len(s) - Len(pat) + 1, Len(s)) = pat

\* Positions (1-based) at which pat occurs in s.
Occurrences(s, pat) ==
    {i \in 1..(Len(s) - Len(pat) + 1) : SubSeq(s, i, i + Len(pat) - 1) = pat}

\* str::contains(pat)
Contains(s, pat) == Occurrences(s, pat) # {}

\* str::find(pat): 1-based position of the first match, 0 for None.
Find(s, pat) ==
    IF Occurrences(s, pat) = {} THEN 0
    ELSE CHOOSE i \in Occurrences(s, pat) : \A j \in Occurrences(s, pat) : i <= j

RECURSIVE TrimStart(_)
\* str::trim_start()
TrimStart(s) ==
    IF s # <<>> /\ IsWhitespace(Head(s)) THEN TrimStart(Tail(s)) ELSE s

RECURSIVE TrimEnd(_)
\* str::trim_end()
TrimEnd(s) ==
    IF s # <<>> /\ IsWhitespace(s[Len(s)]) THEN TrimEnd(SubSeq(s, 1, Len(s) - 1)) ELSE s

\* str::trim()
Trim(s) == TrimEnd(TrimStart(s))

RECURSIVE TrimEndMatches(_, _)
\* str::trim_end_matches(pat): removes every trailing repetition of pat.
TrimEndMatches(s, pat) ==
    IF pat # <<>> /\ EndsWith(s, pat)
    THEN TrimEndMatches(SubSeq(s, 1, Len(s) - Len(pat)), pat)
    ELSE s

RECURSIVE TrimStartMatches(_, _)
\* str::trim_start_matches(pat): removes every leading repetition of pat.
TrimStartMatches(s, pat) ==
    IF pat # <<>> /\ StartsWith(s, pat)
    THEN TrimStartMatches(DropFirst(s, Len(pat)), pat)
    ELSE s

RECURSIVE Split(_, _)
\* str::split(sep).collect::<Vec<_>>(): leftmost, non-overlapping matches of
\* sep; always at least one piece.
Split(s, sep) ==
    LET i == Find(s, sep)
    IN  IF i = 0 THEN <<s>>
        ELSE <<SubSeq(s, 1, i - 1)>> \o Split(DropFirst(s, i + Len(sep) - 1), sep)

\* str::lines(): pieces between line feeds; a final line feed adds no piece.
Lines(s) ==
    LET pieces == Split(s, <<NL>>)
    IN  IF pieces[Len(pieces)] = <<>>
        THEN SubSeq(pieces, 1, Len(pieces) - 1)
        ELSE pieces

RECURSIVE Join(_, _)
\* [&str]::join(sep)
Join(pieces, sep) ==
    IF pieces = <<>> THEN <<>>
    ELSE IF Len(pieces) = 1 THEN pieces[1]
    ELSE pieces[1] \o sep \o Join(Tail(pieces), sep)

\* char::to_lowercase on the lexemes that carry upper-case letters.
LowerLexeme(x) ==
    CASE x = "Example" -> "example"
      [] x = "Struct" -> "struct"
      [] x = "Trait" -> "trait"
      [] x = "Enum" -> "enum"
      [] x = "Lumin" -> "lumin"
      [] x = "Usage" -> "usage"
      [] x = "Generic" -> "generic"
      [] OTHER -> x

\* str::to_lowercase()
ToLower(s) == [i \in 1..Len(s) |-> LowerLexeme(s[i])]

\* Vec::contains
VecContains(v, x) == \E i \in 1..Len(v) : v[i] = x


Digit(d) ==
    CASE d = 0 -> "0" [] d = 1 -> "1" [] d = 2 -> "2" [] d = 3 -> "3" [] d = 4 -> "4"
      [] d = 5 -> "5" [] d = 6 -> "6" [] d = 7 -> "7" [] d = 8 -> "8" [] d = 9 -> "9"

\* A number text that is 1 whatever the number.
AlwaysOne(n) == <<"1">>

RECURSIVE DecimalText(_)
\* Display of an unsigned integer, as format!("{}", n) writes it.
DecimalText(n) ==
    IF n < 10 THEN <<Digit(n)>> ELSE DecimalText(n \div 10) \o <<Digit(n % 10)>>

\* Option<T>
NoneOpt == [some |-> FALSE]

Some(v) == [some |-> TRUE, val |-> v]

(***************************************************************************)
(* DocCache (mod.rs 16-64): two maps, each behind its own tokio Mutex.  A  *)
(* get or set locks, reads or inserts, and unlocks within one step.        *)
(***************************************************************************)
\* DocCache::new
EmptyMap == <<>>

\* A map that never finds a key.
MapGetNothing(map, key) == NoneOpt

\* A map whose insert keeps the value a key already has.
MapInsertIfAbsent(map, key, value) ==
    [k \in (DOMAIN map) \cup {key} |-> IF k \in DOMAIN map THEN map[k] ELSE value]

\* A map whose insert forgets every other key.
MapInsertAlone(map, key, value) == [k \in {key} |-> value]

\* A map whose insert keeps all of the value but its last piece.
MapInsertPartial(map, key, value) ==
    [k \in (DOMAIN map) \cup {key} |->
        IF k = key THEN TakeFirst(value, Len(value) - 1) ELSE map[k]]

\* HashMap::get(key).cloned()
MapGet(map, key) ==
    IF key \in DOMAIN map THEN Some(map[key]) ELSE NoneOpt

\* HashMap::insert(key, value)
MapInsert(map, key, value) ==
    [k \in (DOMAIN map) \cup {key} |-> IF k = key THEN value ELSE map[k]]

(***************************************************************************)
(* Cache keys and URLs                                                     *)
(***************************************************************************)
\* lookup_crate: format!("{}:{}", crate_name, ver) or crate_name
CrateCacheKey(crate_name, version) ==
    IF version.some THEN crate_name \o <<":">> \o version.val ELSE crate_name

\* A lookup_item that leaves the item path as it was passed.
KeepCratePrefix(crate_name, item_path) == item_path

\* lookup_item: strip "<crate_name>::" from the front of item_path, once
StripCratePrefix(crate_name, item_path) ==
    LET crate_prefix == crate_name \o <<":", ":">>
    IN  IF StartsWith(item_path, crate_prefix)
        THEN DropFirst(item_path, Len(crate_prefix))
        ELSE item_path

\* lookup_item: format!("{}:{}:{}", crate_name, ver, item_path) or "{}:{}"
ItemCacheKey(crate_name, version, item_path) ==
    IF version.some
    THEN crate_name \o <<":">> \o version.val \o <<":">> \o item_path
    ELSE crate_name \o <<":">> \o item_path

\* lookup_item_examples: format!("examples:{}:{}:{}", ...) or "examples:{}:{}"
ExamplesCacheKey(crate_name, version, item_path) ==
    IF version.some
    THEN <<"example", "s", ":">> \o crate_name \o <<":">> \o version.val \o <<":">> \o item_path
    ELSE <<"example", "s", ":">> \o crate_name \o <<":">> \o item_path

\* analyze_type_relationships: format!("relationships:{}:{}:{}", ...)
RelationshipsCacheKey(crate_name, version, item_path) ==
    IF version.some
    THEN <<"relationships", ":">> \o crate_name \o <<":">> \o version.val \o <<":">> \o item_path
    ELSE <<"relationships", ":">> \o crate_name \o <<":">> \o item_path

\* lookup_crate: the docs.rs URL of the crate page
CrateUrl(crate_name, version) ==
    IF version.some
    THEN <<"https", ":", "//docs.rs/", "crate", "/">> \o crate_name \o <<"/">> \o version.val \o <<"/">>
    ELSE <<"https", ":", "//docs.rs/", "crate", "/">> \o crate_name \o <<"/">>

\* An order of the item types that tries functions first.
FunctionFirst == <<"fn", "struct", "enum", "trait", "macro">>

\* lookup_item: let item_types = ["struct", "enum", "trait", "fn", "macro"]
ItemTypes == <<"struct", "enum", "trait", "fn", "macro">>

\* lookup_item: parts = item_path.split("::")
PathParts(item_path) == Split(item_path, <<":", ":">>)

\* lookup_item: item_name = parts.last().unwrap()
ItemName(item_path) == PathParts(item_path)[Len(PathParts(item_path))]

\* An item path whose module part is left out of the URL.
NoModulePath(item_path) == <<>>

\* lookup_item: module_path = parts[..parts.len() - 1].join("/"), or empty
ModulePath(item_path) ==
    LET parts == PathParts(item_path)
    IN  IF Len(parts) > 1 THEN Join(SubSeq(parts, 1, Len(parts) - 1), <<"/">>) ELSE <<>>

\* lookup_item: the docs.rs URL tried for one item type
ItemUrl(crate_name, version, item_path, item_type) ==
    LET ver == IF version.some THEN version.val ELSE <<"latest">>
        module_path == ModulePath(item_path)
        leaf == <<item_type, ".">> \o ItemName(item_path) \o <<".", "html">>
    IN  IF module_path = <<>>
        THEN <<"https", ":", "//docs.rs/">> \o crate_name \o <<"/">> \o ver \o <<"/">>
                 \o crate_name \o <<"/">> \o leaf
        ELSE <<"https", ":", "//docs.rs/">> \o crate_name \o <<"/">> \o ver \o <<"/">>
                 \o crate_name \o <<"/">> \o module_path \o <<"/">> \o leaf

\* search_crates: limit.unwrap_or(10).min(100)
SearchLimit(limit) ==
    LET l == IF limit.some THEN limit.val ELSE 10
    IN  IF l < 100 THEN l ELSE 100

\* search_crates: the crates.io URL
SearchUrl(query, limit) ==
    <<"https", ":", "//crates.io/api/v1/crates?q", "=">> \o query \o <<"&", "per_page", "=">>
        \o DecimalText(SearchLimit(limit))

(***************************************************************************)
(* The HTTP capability and html2md::parse_html                             *)
(***************************************************************************)
\* A status check that takes every answer with a status for a success.
AnyStatus(code) == code >= 200

\* reqwest::StatusCode::is_success: 200..=299
IsSuccess(code) == code >= 200 /\ code <= 299

\* Display of a StatusCode: the number and its canonical reason.
StatusText(code) ==
    DecimalText(code) \o <<" ">> \o
        (CASE code = 200 -> <<"OK">>
           [] code = 404 -> <<"Not Found">>
           [] OTHER -> <<"<", "unknown status code", ">">>)

HtmlTags == {"<html>", "</html>", "<pre>", "</pre>"}

IsText(lexeme) == lexeme \notin HtmlTags

\* html2md::parse_html (external): the markup lexemes go, the text stays.
ParseHtml(html) == SelectSeq(html, IsText)

(***************************************************************************)
(* lookup_item_examples, the text engine (mod.rs 258-400)                  *)
(***************************************************************************)
Fence == <<"'''">>

\* "# Usage Examples\n\n"
UsageHeading == <<"#", " ", "Usage", " ", "Example", "s", NL, NL>>

\* "The following examples demonstrate how to use this item:\n\n"
FollowingLine == <<"The following ", "example", "s", " demonstrate how to use this item", ":", NL, NL>>

\* "\n**Example usage:**\n\n"
ExampleUsageNote == <<NL, "**", "Example", " usage", ":", "**", NL, NL>>

\* line.trim().to_lowercase() == "## examples" || ... == "# examples"
IsExamplesHeader(line) ==
    ToLower(Trim(line)) \in {<<"#", "#", " ", "example", "s">>, <<"#", " ", "example", "s">>}

\* A line that starts with # and, trimmed and lower-cased, lacks "example" (277).
IsOtherHeader(line) ==
    /\ StartsWith(line, <<"#">>)
    /\ ~Contains(ToLower(Trim(line)), <<"example">>)

\* line.trim().starts_with(fence)
IsFenceLine(line) == StartsWith(Trim(line), Fence)

\* The locals of the first loop before its first line.
SectionScanStart ==
    [in_examples |-> FALSE, code_block |-> FALSE, current_example |-> <<>>,
     examples_content |-> <<>>]

\* One iteration of for line in doc_lines (268-304).
SectionScanLine(st, line) ==
    IF IsExamplesHeader(line)
    THEN [st EXCEPT !.in_examples = TRUE,
                    !.examples_content = st.examples_content \o UsageHeading]
    ELSE IF st.in_examples /\ IsOtherHeader(line)
    THEN st
    ELSE IF st.in_examples
    THEN LET code_block == IF IsFenceLine(line) THEN ~st.code_block ELSE st.code_block
             note == IsFenceLine(line) /\ code_block /\ st.current_example # <<>>
             content == IF note THEN st.examples_content \o ExampleUsageNote
                        ELSE st.examples_content
             current == IF note THEN <<>> ELSE st.current_example
         IN  [in_examples |-> TRUE,
              code_block |-> code_block,
              examples_content |-> content \o line \o <<NL>>,
              current_example |->
                  IF ~code_block /\ Trim(line) # <<>>
                  THEN current \o line \o <<" ">>
                  ELSE current]
    ELSE st

RECURSIVE SectionScanFrom(_, _)
SectionScanFrom(st, doc_lines) ==
    IF doc_lines = <<>> THEN st
    ELSE SectionScanFrom(SectionScanLine(st, Head(doc_lines)), Tail(doc_lines))

\* The first loop: examples_content after the scan for an Examples section.
SectionScan(doc_lines) == SectionScanFrom(SectionScanStart, doc_lines).examples_content

\* The locals of the second loop before its first line (307-312).
BlockScanStart ==
    [in_code_block |-> FALSE, example_count |-> 0,
     examples_content |-> UsageHeading \o FollowingLine]

\* One iteration of the second for line in doc_lines (315-330).
BlockScanLine(st, line) ==
    IF IsFenceLine(line)
    THEN LET in_code_block == ~st.in_code_block
             example_count == IF in_code_block THEN st.example_count + 1
                              ELSE st.example_count
             label == IF in_code_block
                      THEN <<"#", "#", " ", "Example", " ">> \o DecimalText(example_count)
                               \o <<NL, NL>>
                      ELSE <<>>
         IN  [in_code_block |-> in_code_block,
              example_count |-> example_count,
              examples_content |-> st.examples_content \o label \o line \o <<NL>>]
    ELSE IF st.in_code_block
    THEN [st EXCEPT !.examples_content = st.examples_content \o line \o <<NL>>]
    ELSE st

RECURSIVE BlockScanFrom(_, _)
BlockScanFrom(st, doc_lines) ==
    IF doc_lines = <<>> THEN st
    ELSE BlockScanFrom(BlockScanLine(st, Head(doc_lines)), Tail(doc_lines))

\* The second loop: every fenced block of the document, numbered.
BlockScan(doc_lines) == BlockScanFrom(BlockScanStart, doc_lines).examples_content

\* if examples_content.is_empty() { second loop } (307)
ScannedExamples(doc_lines) ==
    IF SectionScan(doc_lines) = <<>> THEN BlockScan(doc_lines) ELSE SectionScan(doc_lines)

\* The condition of the synthetic stage (334-336).
NeedsGenerated(examples_content) ==
    \/ Trim(examples_content) = Trim(UsageHeading \o FollowingLine)
    \/ Trim(examples_content) = Trim(UsageHeading)
    \/ ~Contains(examples_content, Fence)

\* The lower-cased document contains the keyword and the lower-cased item name.
MentionsKind(doc_content, keyword, item_name) ==
    /\ Contains(ToLower(doc_content), <<keyword>>)
    /\ Contains(ToLower(doc_content), ToLower(item_name))

\* A choice of kind that looks for enum before trait.
KindEnumFirst(doc_content, item_name) ==
    IF MentionsKind(doc_content, "struct", item_name) THEN "struct"
    ELSE IF MentionsKind(doc_content, "enum", item_name) THEN "enum"
    ELSE IF MentionsKind(doc_content, "trait", item_name) THEN "trait"
    ELSE IF MentionsKind(doc_content, "fn", item_name) THEN "function"
    ELSE "item"

\* The kind the synthetic stage settles on (342-389), "item" for the fallback.
GeneratedKind(doc_content, item_name) ==
    IF MentionsKind(doc_content, "struct", item_name) THEN "struct"
    ELSE IF MentionsKind(doc_content, "trait", item_name) THEN "trait"
    ELSE IF MentionsKind(doc_content, "enum", item_name) THEN "enum"
    ELSE IF MentionsKind(doc_content, "fn", item_name) THEN "function"
    ELSE "item"

\* "use {}::{};\n\n"
UseLine(crate_name, item_path) ==
    <<"use ">> \o crate_name \o <<":", ":">> \o item_path \o <<";", NL, NL>>

\* "This is a generated example. Check the actual documentation for "
GeneratedNote == <<"This is a generated ", "example", ". Check the actual documentation ", "for", " ">>

GeneratedStruct(crate_name, item_path, item_name) ==
    <<"#", "#", " ", "Creating and using a ">> \o item_name \o <<" instance", NL, NL>>
    \o <<"'''", "rust", NL>>
    \o UseLine(crate_name, item_path)
    \o <<"// Create a new ">> \o item_name \o <<" instance", NL>>
    \o <<"let instance ", "=", " ">> \o item_name \o <<":", ":", "new", "(", ")", ";", NL, NL>>
    \o <<"// Use methods on the ">> \o item_name \o <<" instance", NL>>
    \o <<"// instance.some_method", "(", ")", ";", NL>>
    \o <<"'''", NL, NL>>
    \o GeneratedNote \o <<"the correct method names and usage patterns.", NL>>

GeneratedTrait(crate_name, item_path, item_name) ==
    <<"#", "#", " ", "Implementing the ">> \o item_name \o <<" ", "trait", NL, NL>>
    \o <<"'''", "rust", NL>>
    \o UseLine(crate_name, item_path)
    \o <<"struct", " ", "MyType", ";", NL, NL>>
    \o <<"impl", " ">> \o item_name \o <<" ", "for", " ", "MyType", " ", "{", NL>>
    \o <<"    // Implement the required ", "trait", " methods here", NL>>
    \o <<"}", NL>>
    \o <<"'''", NL, NL>>
    \o GeneratedNote \o <<"the required ", "trait", " methods.", NL>>

GeneratedEnum(crate_name, item_path, item_name) ==
    <<"#", "#", " ", "Using the ">> \o item_name \o <<" ", "enum", NL, NL>>
    \o <<"'''", "rust", NL>>
    \o UseLine(crate_name, item_path)
    \o <<"// Match on ">> \o item_name \o <<" variants", NL>>
    \o <<"let value ", "=", " ">> \o item_name \o <<":", ":", "Variant", ";", NL, NL>>
    \o <<"match value ", "{", NL>>
    \o <<"    ">> \o item_name \o <<":", ":", "Variant", " ", "=", ">", " ", "{", "}", ",", NL>>
    \o <<"    // Match other variants...", NL>>
    \o <<"}", NL>>
    \o <<"'''", NL, NL>>
    \o GeneratedNote \o <<"the correct ", "enum", " variants.", NL>>

GeneratedFunction(crate_name, item_path, item_name) ==
    <<"#", "#", " ", "Calling the ">> \o item_name \o <<" function", NL, NL>>
    \o <<"'''", "rust", NL>>
    \o UseLine(crate_name, item_path)
    \o <<"// Call the function", NL>>
    \o <<"let result ", "=", " ">> \o item_name \o <<"(", ")", ";", NL>>
    \o <<"'''", NL, NL>>
    \o GeneratedNote \o <<"the correct function parameters.", NL>>

GeneratedGeneric(crate_name, item_path) ==
    <<"#", "#", " ", "Generic", " ", "Example", NL, NL>>
    \o <<"'''", "rust", NL>>
    \o <<"// ", "Example", " ", "for", " using ">> \o item_path \o <<NL>>
    \o UseLine(crate_name, item_path)
    \o <<"// Add your usage code here", NL>>
    \o <<"'''", NL, NL>>
    \o <<"No specific ", "example", "s", " were found in the documentation.", NL>>
    \o <<"Please refer to the main documentation ", "for", " usage in", "for", "mation.", NL>>

\* The synthetic stage (337-399): heading plus the template of the kind.
GeneratedExamples(doc_content, crate_name, item_path) ==
    LET item_name == ItemName(item_path)
        kind == GeneratedKind(doc_content, item_name)
    IN  UsageHeading \o
        (CASE kind = "struct" -> GeneratedStruct(crate_name, item_path, item_name)
           [] kind = "trait" -> GeneratedTrait(crate_name, item_path, item_name)
           [] kind = "enum" -> GeneratedEnum(crate_name, item_path, item_name)
           [] kind = "function" -> GeneratedFunction(crate_name, item_path, item_name)
           [] OTHER -> GeneratedGeneric(crate_name, item_path))

\* examples_content as lookup_item_examples builds it from doc_content (258-400).
ExtractExamples(doc_content, crate_name, item_path) ==
    LET scanned == ScannedExamples(Lines(doc_content))
    IN  IF NeedsGenerated(scanned)
        THEN GeneratedExamples(doc_content, crate_name, item_path)
        ELSE scanned

(***************************************************************************)
(* analyze_type_relationships, the text engine (mod.rs 439-753)            *)
(***************************************************************************)
Arrow == <<"-", ">">>

\* The item type named in the overview (451-460); the checks are case-sensitive
\* and look for the item path as it was passed in.
InferredItemType(item_doc, item_path) ==
    IF Contains(item_doc, <<"struct">>) /\ Contains(item_doc, item_path) THEN "struct"
    ELSE IF Contains(item_doc, <<"enum">>) /\ Contains(item_doc, item_path) THEN "enum"
    ELSE IF Contains(item_doc, <<"trait">>) /\ Contains(item_doc, item_path) THEN "trait"
    ELSE IF Contains(item_doc, <<"fn">>) /\ Contains(item_doc, item_path) THEN "function"
    ELSE "item"

\* line.contains("fn ") && line.contains("->") (465)
IsSignatureLine(line) == Contains(line, <<"fn", " ">>) /\ Contains(line, Arrow)

\* The text after the first arrow, trimmed as line 468 trims it.
ReturnTypeText(line) ==
    LET after == Trim(DropFirst(line, Find(line, Arrow) + 1))
    IN  TrimEndMatches(TrimEnd(TrimEndMatches(TrimEndMatches(after, <<"{">>), <<";">>)), <<",">>)

\* A push that does not look for the text among the types it has.
PushRepeated(types, text) ==
    IF text # <<>> /\ ~Contains(text, <<"Self">>) THEN Append(types, text) ELSE types

\* !text.is_empty() && !text.contains("Self") && !types.contains(text): push
PushType(types, text) ==
    IF text # <<>> /\ ~Contains(text, <<"Self">>) /\ ~VecContains(types, text)
    THEN Append(types, text)
    ELSE types

\* The text between the first "(" and the first ")" after it (478-480), as
\* Some(params), or None when either is missing.
ParamsText(line) ==
    LET params_start == Find(line, <<"(">>)
        params_end == Find(DropFirst(line, params_start - 1), <<")">>)
    IN  IF params_start = 0 \/ params_end = 0 THEN NoneOpt
        ELSE Some(Trim(SubSeq(line, params_start + 1, params_start + params_end - 2)))

\* param.split(':').nth(1).unwrap_or("").trim() (485)
ParamTypeText(param) ==
    LET pieces == Split(param, <<":">>)
    IN  Trim(IF Len(pieces) >= 2 THEN pieces[2] ELSE <<>>)

RECURSIVE PushParamTypes(_, _)
\* for param in param_parts (483-493)
PushParamTypes(types, param_parts) ==
    IF param_parts = <<>> THEN types
    ELSE LET param == Head(param_parts)
             pushed == IF Contains(param, <<":">>)
                       THEN PushType(types, ParamTypeText(param))
                       ELSE types
         IN  PushParamTypes(pushed, Tail(param_parts))

\* The associated type name of a line (499-513), Some(name) or None.
AssociatedTypeText(line) ==
    IF ~(Contains(line, <<"type", " ">>) /\ Contains(line, <<";">>)) THEN NoneOpt
    ELSE LET rest == DropFirst(line, Find(line, <<"type", " ">>) + 1)
             name_end == IF Find(rest, <<":">>) # 0 THEN Find(rest, <<":">>)
                         ELSE IF Find(rest, <<"=">>) # 0 THEN Find(rest, <<"=">>)
                         ELSE Find(rest, <<";">>)
         IN  IF name_end = 0 THEN NoneOpt
             ELSE Some(Trim(SubSeq(rest, 1, name_end - 1)))

\* The trait name of an "impl ... for" line (517-531), Some(name) or None.
ImplTraitText(line) ==
    LET t_pos == Find(line, <<"impl">>)
        f_pos == Find(line, <<"for">>)
    IN  IF t_pos = 0 \/ f_pos = 0 \/ ~(t_pos + 1 < f_pos) THEN NoneOpt
        ELSE Some(TrimEndMatches(
                      TrimStartMatches(Trim(SubSeq(line, t_pos + 1, f_pos - 1)), <<"<">>),
                      <<">">>))

\* The four vectors before the first line (445-448).
AnalysisStart ==
    [method_return_types |-> <<>>, parameter_types |-> <<>>,
     associated_types |-> <<>>, impl_traits |-> <<>>]

\* One iteration of for line in lines (463-534).
AnalysisLine(st, line) ==
    LET returns == IF IsSignatureLine(line)
                   THEN PushType(st.method_return_types, ReturnTypeText(line))
                   ELSE st.method_return_types
        params == IF IsSignatureLine(line) /\ ParamsText(line).some
                  THEN PushParamTypes(st.parameter_types,
                                      Split(ParamsText(line).val, <<",">>))
                  ELSE st.parameter_types
        assoc == IF AssociatedTypeText(line).some
                 THEN Append(st.associated_types, AssociatedTypeText(line).val)
                 ELSE st.associated_types
        impls == IF ImplTraitText(line).some
                    /\ ImplTraitText(line).val # <<>>
                    /\ ~VecContains(st.impl_traits, ImplTraitText(line).val)
                 THEN Append(st.impl_traits, ImplTraitText(line).val)
                 ELSE st.impl_traits
    IN  [method_return_types |-> returns, parameter_types |-> params,
         associated_types |-> assoc, impl_traits |-> impls]

RECURSIVE AnalysisFrom(_, _)
AnalysisFrom(st, lines) ==
    IF lines = <<>> THEN st
    ELSE AnalysisFrom(AnalysisLine(st, Head(lines)), Tail(lines))

\* The vectors after the loop over the lines of the document.
Analysis(item_doc) == AnalysisFrom(AnalysisStart, Lines(item_doc))

\* "- '{}' \n"
ListEntry(text) == <<"- ", "'">> \o text \o <<"'", " ", NL>>

ResultPrefix == <<"Result", "<">>

OptionPrefix == <<"Option", "<">>

\* clean_type (551-555)
CleanType(return_type) ==
    Trim(TrimEndMatches(
             TrimStartMatches(TrimStartMatches(return_type, ResultPrefix), OptionPrefix),
             <<">">>))

ResultGuidance(return_type) ==
    <<"  - This is a Result ", "type", " ", "that must be handled with '?'", ",", " '.unwrap", "(", ")",
      "'", ",", " or pattern matching", NL>>
    \o <<"  - When successful", ",", " it returns '">> \o CleanType(return_type) \o <<"'", NL>>

OptionGuidance(return_type) ==
    <<"  - This is an Option ", "type", " ", "that may contain None", NL>>
    \o <<"  - When Some", ",", " it contains '">> \o CleanType(return_type) \o <<"'", NL>>

\* One pass of for return_type in method_return_types (549-570).
ReturnTypeEntry(return_type) ==
    ListEntry(return_type)
    \o (IF StartsWith(return_type, ResultPrefix) THEN ResultGuidance(return_type) ELSE <<>>)
    \o (IF StartsWith(return_type, OptionPrefix) THEN OptionGuidance(return_type) ELSE <<>>)

\* One pass of for param_type in parameter_types (578-592).
ParameterTypeEntry(param_type) ==
    IF param_type \in {<<"&", "self">>, <<"&", "mut", " ", "self">>, <<"self">>} THEN <<>>
    ELSE ListEntry(param_type)
         \o (IF StartsWith(param_type, <<"&">>)
             THEN <<"  - This is a borrowed reference - no ownership transfer", NL>>
             ELSE IF Contains(param_type, <<"impl", " ">>)
             THEN <<"  - This accepts any ", "type", " ", "that ", "impl", "ements the specified ",
                    "trait", NL>>
             ELSE <<>>)

RECURSIVE ConcatEntries(_)
\* The entries pushed for the elements of a vector, one after the other.
ConcatEntries(entries) ==
    IF entries = <<>> THEN <<>>
    ELSE Head(entries) \o ConcatEntries(Tail(entries))

ReturnTypesHeading == <<"#", "#", " ", "Return Types", NL, NL>>

ParameterTypesHeading == <<"#", "#", " ", "Parameter Types", NL, NL>>

\* The Return Types section (545-572), empty when no type was captured.
ReturnTypesSection(method_return_types) ==
    IF method_return_types = <<>> THEN <<>>
    ELSE ReturnTypesHeading
         \o <<"This item's methods return the following ", "type", "s", ":", NL, NL>>
         \o ConcatEntries([i \in 1..Len(method_return_types) |-> ReturnTypeEntry(method_return_types[i])])
         \o <<NL>>

\* The Parameter Types section (574-594).
ParameterTypesSection(parameter_types) ==
    IF parameter_types = <<>> THEN <<>>
    ELSE ParameterTypesHeading
         \o <<"This item's methods accept the following ", "type", "s as parameters", ":", NL, NL>>
         \o ConcatEntries([i \in 1..Len(parameter_types) |-> ParameterTypeEntry(parameter_types[i])])
         \o <<NL>>

\* The Associated Types section (596-604).
AssociatedTypesSection(associated_types) ==
    IF associated_types = <<>> THEN <<>>
    ELSE <<"#", "#", " ", "Associated Types", NL, NL>>
         \o <<"This ", "trait", " has the following associated ", "type", "s that ",
              "impl", "ementors must define", ":", NL, NL>>
         \o ConcatEntries([i \in 1..Len(associated_types) |-> ListEntry(associated_types[i])])
         \o <<NL>>

\* The Implemented Traits section (606-614).
ImplementedTraitsSection(impl_traits) ==
    IF impl_traits = <<>> THEN <<>>
    ELSE <<"#", "#", " ", "Implemented ", "Trait", "s", NL, NL>>
         \o <<"This ", "type", " ", "impl", "ements the following ", "trait", "s", ":", NL, NL>>
         \o ConcatEntries([i \in 1..Len(impl_traits) |-> ListEntry(impl_traits[i])])
         \o <<NL>>

\* method_return_types.iter().any(|t| t.starts_with(prefix))
\* A check of the first captured type only.
FirstStartsWith(types, prefix) == types # <<>> /\ StartsWith(types[1], prefix)

AnyStartsWith(types, prefix) == \E i \in 1..Len(types) : StartsWith(types[i], prefix)

MatchArms ==
    <<"    Ok", "(", "value", ")", " ", "=", ">", " ", "{", " /* use value */ ", "}", ",", NL>>
    \o <<"    Err", "(", "err", ")", " ", "=", ">", " ", "{", " /* handle error */ ", "}", ",", NL>>
    \o <<"}", NL>>

StructPatterns(item_name, method_return_types) ==
    <<"#", "#", "#", " ", "Creating a ">> \o item_name \o <<NL, NL>>
    \o <<"'''", "rust", NL>>
    \o <<"// Using new", "(", ")", " if available", NL, "let instance ", "=", " ">> \o item_name
    \o <<":", ":", "new", "(", ")", ";", NL, NL>>
    \o <<"// Using a builder pattern if available", NL, "// let instance ", "=", " ">> \o item_name
    \o <<":", ":", "builder", "(", ")", ".build", "(", ")", ";", NL>>
    \o <<"'''", NL, NL>>
    \o <<"#", "#", "#", " ", "Using ">> \o item_name \o <<" methods", NL, NL>>
    \o <<"'''", "rust", NL>>
    \o <<"// Call methods on the instance", NL>>
    \o <<"// instance.some_method", "(", ")", ";", NL>>
    \o (IF AnyStartsWith(method_return_types, ResultPrefix)
        THEN <<NL, "// For methods returning Result", NL>>
             \o <<"let result ", "=", " instance.some_method", "(", ")", "?", ";",
                  " // Use ? to propagate errors", NL>>
             \o <<"// Or handle errors explicitly", NL>>
             \o <<"match instance.some_method", "(", ")", " ", "{", NL>>
             \o MatchArms
        ELSE <<>>)
    \o <<"'''", NL, NL>>

RECURSIVE AssociatedTypeStubs(_)
\* "    type {} = /* Your type here */;\n" for each associated type (656-658)
AssociatedTypeStubs(associated_types) ==
    IF associated_types = <<>> THEN <<>>
    ELSE <<"    ", "type", " ">> \o Head(associated_types)
         \o <<" ", "=", " /* Your ", "type", " ", "here */", ";", NL>>
         \o AssociatedTypeStubs(Tail(associated_types))

TraitPatterns(item_name, associated_types) ==
    <<"#", "#", "#", " ", "Implementing the ">> \o item_name \o <<" ", "trait", NL, NL>>
    \o <<"'''", "rust", NL>>
    \o <<"struct", " ", "MyType", ";", NL, NL>>
    \o <<"impl", " ">> \o item_name \o <<" ", "for", " ", "MyType", " ", "{", NL>>
    \o AssociatedTypeStubs(associated_types)
    \o <<"    // Implement required methods", NL>>
    \o <<"}", NL>>
    \o <<"'''", NL, NL>>
    \o <<"#", "#", "#", " ", "Using ", "type", "s that ", "impl", "ement ">> \o item_name \o <<NL, NL>>
    \o <<"'''", "rust", NL>>
    \o <<"fn", " ", "use_", "trait", "<", "T", ":", " ">> \o item_name
    \o <<">", "(", "value", ":", " ", "T", ")", " ", "{", NL>>
    \o <<"    // Use ", "trait", " methods on value", NL>>
    \o <<"}", NL>>
    \o <<"'''", NL, NL>>

EnumPatterns(item_name) ==
    <<"#", "#", "#", " ", "Pattern matching on ">> \o item_name \o <<NL, NL>>
    \o <<"'''", "rust", NL>>
    \o <<"let value", ":", " ">> \o item_name \o <<" ", "=", " /* ... */", ";", NL, NL>>
    \o <<"match value ", "{", NL>>
    \o <<"    // Match each variant", NL>>
    \o <<"    ">> \o item_name
    \o <<":", ":", "Variant1", " ", "=", ">", " ", "{", " /* handle variant 1 */ ", "}", ",", NL>>
    \o <<"    ">> \o item_name
    \o <<":", ":", "Variant2", "(", "data", ")", " ", "=", ">", " ", "{",
         " /* handle variant 2 with data */ ", "}", ",", NL>>
    \o <<"    // ...", NL>>
    \o <<"}", NL>>
    \o <<"'''", NL, NL>>

FunctionPatterns(item_name, method_return_types) ==
    <<"#", "#", "#", " ", "Calling the ">> \o item_name \o <<" function", NL, NL>>
    \o <<"'''", "rust", NL>>
    \o <<"let result ", "=", " ">> \o item_name \o <<"(", "/* parameters */", ")", ";", NL>>
    \o (IF AnyStartsWith(method_return_types, ResultPrefix)
        THEN <<NL, "// If the function returns Result", NL>>
             \o <<"let value ", "=", " ">> \o item_name
             \o <<"(", "/* parameters */", ")", "?", ";", " // Use ? to propagate errors", NL>>
             \o <<"// Or handle errors explicitly", NL>>
             \o <<"match ">> \o item_name \o <<"(", "/* parameters */", ")", " ", "{", NL>>
             \o MatchArms
        ELSE <<>>)
    \o <<"'''", NL, NL>>

OtherPatterns ==
    <<"Specific usage patterns depend on the exact nature of this item.", NL>>
    \o <<"Please refer to the main documentation ", "for", " details.", NL, NL>>

\* The Common Usage Patterns section (617-708).
UsagePatternsSection(item_type, item_name, st) ==
    <<"#", "#", " ", "Common ", "Usage", " Patterns", NL, NL>>
    \o (CASE item_type = "struct" -> StructPatterns(item_name, st.method_return_types)
          [] item_type = "trait" -> TraitPatterns(item_name, st.associated_types)
          [] item_type = "enum" -> EnumPatterns(item_name)
          [] item_type = "function" -> FunctionPatterns(item_name, st.method_return_types)
          [] OTHER -> OtherPatterns)

WorkingWithResultHeading == <<"#", "#", " ", "Working with Result ", "type", "s", NL, NL>>

WorkingWithOptionHeading == <<"#", "#", " ", "Working with Option ", "type", "s", NL, NL>>

\* The "Working with Result types" block (714-733).
WorkingWithResult ==
    WorkingWithResultHeading
    \o <<"This item works with Result ", "type", "s. Here are common patterns", ":", NL, NL>>
    \o <<"'''", "rust", NL>>
    \o <<"// Propagate errors with ?", NL>>
    \o <<"fn", " ", "example", "(", ")", " ", "-", ">", " ", "Result", "<", "(", ")", ",",
         " ", "Error", ">", " ", "{", NL>>
    \o <<"    let value ", "=", " some_function", "(", ")", "?", ";",
         " // ? unwraps Ok or returns Err early", NL>>
    \o <<"    Ok", "(", "(", ")", ")", NL>>
    \o <<"}", NL, NL>>
    \o <<"// Handle errors with match", NL>>
    \o <<"match some_function", "(", ")", " ", "{", NL>>
    \o <<"    Ok", "(", "value", ")", " ", "=", ">", " ", "{", " /* use value */ ", "}", ",", NL>>
    \o <<"    Err", "(", "error", ")", " ", "=", ">", " ", "{", " /* handle error */ ", "}", ",", NL>>
    \o <<"}", NL, NL>>
    \o <<"// Using combinators", NL>>
    \o <<"some_function", "(", ")", NL>>
    \o <<"    .map", "(", "|value| /* trans", "for", "m value */", ")", NL>>
    \o <<"    .map_err", "(", "|error| /* trans", "for", "m error */", ")", NL>>
    \o <<"'''", NL, NL>>

\* The "Working with Option types" block (738-753).
WorkingWithOption ==
    WorkingWithOptionHeading
    \o <<"This item works with Option ", "type", "s. Here are common patterns", ":", NL, NL>>
    \o <<"'''", "rust", NL>>
    \o <<"// Check if value exists", NL>>
    \o <<"if let Some", "(", "value", ")", " ", "=", " optional_value ", "{", NL>>
    \o <<"    // Use value", NL>>
    \o <<"}", NL, NL>>
    \o <<"// Provide a default with unwrap_or", NL>>
    \o <<"let value ", "=", " optional_value.unwrap_or", "(", "default_value", ")", ";", NL, NL>>
    \o <<"// Using combinators", NL>>
    \o <<"optional_value", NL>>
    \o <<"    .map", "(", "|value| /* trans", "for", "m value */", ")", NL>>
    \o <<"    .filter", "(", "|value| /* predicate */", ")", NL>>
    \o <<"'''", NL, NL>>

\* "# Type Relationships for {}\n\n"
ReportTitle(item_path) == <<"#", " ", "Type Relationships ", "for", " ">> \o item_path \o <<NL, NL>>

\* "## Overview\n\n" and the sentence naming the item, its type and its crate
Overview(item_name, item_type, crate_name) ==
    <<"#", "#", " ", "Overview", NL, NL>>
    \o <<"'">> \o item_name \o <<"'", " is a ", item_type, " in the ", "'">> \o crate_name
    \o <<"'", " crate.", NL, NL>>

\* The report as analyze_type_relationships assembles it from item_doc (439-753).
AnalyzeRelationships(item_doc, crate_name, item_path) ==
    LET st == Analysis(item_doc)
        item_type == InferredItemType(item_doc, item_path)
        item_name == ItemName(item_path)
    IN  ReportTitle(item_path)
        \o Overview(item_name, item_type, crate_name)
        \o ReturnTypesSection(st.method_return_types)
        \o ParameterTypesSection(st.parameter_types)
        \o AssociatedTypesSection(st.associated_types)
        \o ImplementedTraitsSection(st.impl_traits)
        \o UsagePatternsSection(item_type, item_name, st)
        \o (IF AnyStartsWith(st.method_return_types, ResultPrefix) THEN WorkingWithResult ELSE <<>>)
        \o (IF AnyStartsWith(st.method_return_types, OptionPrefix) THEN WorkingWithOption ELSE <<>>)

(***************************************************************************)
(* The upstream hosts, as the router sees them through reqwest             *)
(***************************************************************************)
\* A status line of a response: documentation found, or not.
StatusCodes == {200, 404}

\* Display of the reqwest::Error of a send that did not complete.
TransportErrorText(url) == <<"error sending request ", "for", " url ", "(">> \o url \o <<")">>

\* Display of the reqwest::Error of a body that could not be read.
BodyErrorText == <<"error decoding response body">>

\* The page the documentation host serves at a URL: markup around text that
\* names the URL (and so the item kind and the item name).
PageAt(url) == <<"<html>", "<pre>", "Documentation at ">> \o url \o <<"</pre>", NL, "</html>">>

\* The bodies the registry serves: JSON, JSON after blank space, JSON after a
\* line feed with markup in a description, a web page.
SearchBodies ==
    { <<"{", "\"crates\"", ":", "[]", "}">>,
      <<" ", "{", "}">>,
      <<NL, "{", "\"description\"", ":", "\"", "<pre>", "x", "</pre>", "\"", "}">>,
      <<"<html>", "No results", "</html>">> }

(***************************************************************************)
(* The texts the operations return on failure                              *)
(***************************************************************************)
\* format!("Failed to fetch documentation: {}", e) (128)
FetchFailed(e) == <<"Failed to fetch documentation", ":", " ">> \o e

\* format!("Failed to fetch documentation. Status: {}", status) (132-135)
FetchStatus(code) == <<"Failed to fetch documentation. Status", ":", " ">> \o StatusText(code)

\* format!("Failed to read response body: {}", e) (140, 214, 853)
ReadBodyFailed(e) == <<"Failed to read response body", ":", " ">> \o e

\* format!("Failed to search crates.io: {}", e) (205)
SearchFailed(e) == <<"Failed to search crates.io", ":", " ">> \o e

\* format!("Failed to search crates.io. Status: {}", status) (209)
SearchStatus(code) == <<"Failed to search crates.io. Status", ":", " ">> \o StatusText(code)

\* format!("Status code: {}", status) (865)
StatusCodeError(code) == <<"Status code", ":", " ">> \o StatusText(code)

\* A record of errors that keeps the first one.
KeepFirstError(last_error, text) == IF last_error.some THEN last_error ELSE Some(text)

\* last_error = Some(text) (844, 865): every failure overwrites the one before
RecordError(last_error, text) == Some(text)

\* The payload once every item type was tried (869-872).
NoMatchingItem(last_error) ==
    <<"Failed to fetch item documentation. No matching item found. Last error", ":", " ">>
    \o (IF last_error.some THEN last_error.val ELSE <<"Unknown error">>)

\* "Invalid item path. Expected format: module::path::ItemName" (791)
InvalidItemPath ==
    <<"Invalid item path. Expected ", "for", "mat", ":", " module", ":", ":", "path", ":", ":",
      "ItemName">>

(***************************************************************************)
(* Arguments the clients pass                                              *)
(***************************************************************************)
MaxCalls == 2

CrateNames == {<<"serde">>, <<"example", "s">>}

Versions == {NoneOpt, Some(<<"serde">>)}

ItemPaths == {<<"Lumin">>, <<"serde", ":", ":", "Lumin">>}

Queries == {<<"http client">>}

Limits == {NoneOpt, Some(0), Some(5), Some(101)}

(***************************************************************************)
(* State                                                                   *)
(***************************************************************************)
VARIABLES
    cache,           \* DocCache.cache: key -> text
    examples_cache,  \* DocCache.examples_cache: key -> Vec<CodeExample>
    callers,         \* the clients of the router
    call,            \* call[c]: the call of client c, in flight or just finished
    prev,            \* prev[c]: the call client c finished before this one
    started,         \* started[c]: how many calls client c has begun
    last_set,        \* per namespace and key, the value of the latest set
    got,             \* what the latest get or get_examples returned
    text_in,         \* the document handed to a text engine
    text_out,        \* what the engine made of it
    text_args,       \* the item path handed to the engine with the document
    lock,            \* who holds the guard of DocCache.cache: 0 for nobody
    stored           \* every (key, value) that was handed to DocCache::set

vars ==
    <<cache, examples_cache, callers, call, prev, started, last_set, got, text_in, text_out,
      text_args, lock, stored>>

\* What the upstream made of the latest GET: whether the send failed, the
\* status of the response (0 without one) and what became of the body.
Answer(error, status) == [error |-> error, status |-> status, body |-> "none"]

\* A client that has not called yet.
IdleCall ==
    [op |-> "none", pc |-> "idle",
     crate_name |-> <<>>, item_path |-> <<>>, version |-> NoneOpt,
     query |-> <<>>, limit |-> NoneOpt,
     derived_key |-> <<>>, cache_key |-> <<>>, path |-> <<>>,
     idx |-> 0, url |-> <<>>, last_error |-> NoneOpt,
     markdown_body |-> <<>>, body |-> <<>>, item_doc |-> NoneOpt, resolved |-> "none",
     derived |-> <<>>, fetches |-> <<>>, answer |-> Answer(FALSE, 0), outcome |-> "none", result |-> NoneOpt]

\* What is kept of a finished call once the client calls again.
Summary(r) ==
    IF r.pc = "idle" THEN NoneOpt
    ELSE Some([op |-> r.op, crate_name |-> r.crate_name, item_path |-> r.item_path,
               version |-> r.version, query |-> r.query, limit |-> r.limit,
               cache_key |-> r.cache_key, derived_key |-> r.derived_key,
               resolved |-> r.resolved, outcome |-> r.outcome, result |-> r.result.val])

\* The client is between calls and may call again.
Ready(c) == call[c].pc \in {"idle", "done"} /\ started[c] < MaxCalls

\* The client begins the call r.
Begin(c, r) ==
    /\ call' = [call EXCEPT ![c] = r]
    /\ prev' = [prev EXCEPT ![c] = Summary(call[c])]
    /\ started' = [started EXCEPT ![c] = started[c] + 1]

\* The operation returns payload to the dispatch layer; its locals are gone.
Return(r, payload, how) ==
    [r EXCEPT !.pc = "done", !.result = Some(payload), !.outcome = how,
              !.idx = 0, !.url = <<>>, !.last_error = NoneOpt, !.markdown_body = <<>>]

\* The GET of r.url was answered: the log of the call keeps the URL and whether
\* a success status came back.
Sent(r, error, status) ==
    [r EXCEPT !.fetches = Append(r.fetches, [url |-> r.url, ok |-> IsSuccess(status)]),
              !.answer = Answer(error, status)]

BodyRead(r, how) == [r EXCEPT !.answer.body = how]

Step(c, r) ==
    /\ call' = [call EXCEPT ![c] = r]
    /\ UNCHANGED <<prev, started>>

Rest == <<examples_cache, callers, last_set, got, text_in, text_out, text_args>>

\* The pcs at which a call is about to take the guard: self.cache.lock().await
\* in DocCache::get (45) and DocCache::set (50).
LockPoints ==
    {"crate_get", "crate_set", "item_get", "item_set",
     "examples_get", "examples_set", "relationships_get", "relationships_set"}

\* A guard that outlives the map operation it was taken for.
KeepGuard(holder) == holder

\* The guard is dropped when DocCache::get or DocCache::set returns (47, 52).
DropGuard(holder) == 0

\* self.cache.lock().await (45, 50): the call takes the guard once it is free.
DocCacheLock(c) ==
    /\ call[c].pc \in LockPoints
    /\ lock = 0
    /\ lock' = c
    /\ UNCHANGED <<cache, stored, call, prev, started, Rest>>

\* DocCache::get under the guard (46-47): the map is read, the guard dropped.
DocCacheGet(c) ==
    /\ lock = c
    /\ lock' = DropGuard(c)
    /\ UNCHANGED <<cache, stored>>

\* A set that takes and drops the guard and inserts nothing.
DocCacheSkip(c, key, value) ==
    /\ lock = c
    /\ lock' = 0
    /\ UNCHANGED <<cache, stored>>

\* DocCache::set under the guard (51-52): the whole value goes in, the guard
\* is dropped.
DocCacheSet(c, key, value) ==
    /\ lock = c
    /\ cache' = MapInsert(cache, key, value)
    /\ stored' = stored \cup {[key |-> key, value |-> value]}
    /\ lock' = DropGuard(c)

(***************************************************************************)
(* lookup_item (762-873)                                                   *)
(***************************************************************************)
\* The call of lookup_item up to its first await (769-779).
EnterLookupItem(r) ==
    LET item_path == StripCratePrefix(r.crate_name, r.item_path)
    IN  [r EXCEPT !.path = item_path,
                  !.cache_key = ItemCacheKey(r.crate_name, r.version, item_path),
                  !.pc = "item_get"]

\* lookup_item returns doc to the operation that called it: lookup_item_tool
\* returns it (171); the derived operations build their text from it and go on
\* to store that text (256-403, 437-756).
LeaveLookupItem(r, doc, how) ==
    LET back == [r EXCEPT !.item_doc = Some(doc), !.resolved = how]
    IN  CASE r.op = "lookup_item_examples" ->
                 [back EXCEPT !.derived = ExtractExamples(doc, r.crate_name, r.item_path),
                              !.pc = "examples_set"]
          [] r.op = "analyze_type_relationships" ->
                 [back EXCEPT !.derived = AnalyzeRelationships(doc, r.crate_name, r.item_path),
                              !.pc = "relationships_set"]
          [] OTHER -> Return(back, doc, how)

\* The loop goes on to the next item type, or ends without a match (805, 869).
NextCandidate(r) ==
    IF r.idx < Len(ItemTypes)
    THEN [r EXCEPT !.idx = r.idx + 1,
                   !.url = ItemUrl(r.crate_name, r.version, r.path, ItemTypes[r.idx + 1]),
                   !.pc = "item_send"]
    ELSE LeaveLookupItem(r, NoMatchingItem(r.last_error), "failed")

\* self.cache.get(&cache_key).await and, on a miss, the way to the first send
\* (781-829).
LookupItemGet(c) ==
    /\ call[c].pc = "item_get"
    /\ LET r == call[c]
           doc == MapGet(cache, r.cache_key)
       IN  Step(c, IF doc.some THEN LeaveLookupItem(r, doc.val, "hit")
                   ELSE IF PathParts(r.path) = <<>>
                   THEN LeaveLookupItem(r, InvalidItemPath, "failed")
                   ELSE [r EXCEPT !.idx = 1,
                                  !.url = ItemUrl(r.crate_name, r.version, r.path, ItemTypes[1]),
                                  !.last_error = NoneOpt,
                                  !.pc = "item_send"])
    /\ DocCacheGet(c)
    /\ UNCHANGED Rest

\* send().await for one item type (832-866): a transport error or a status
\* that is no success is recorded and the loop continues; a success goes on
\* to read the body.
LookupItemSend(c) ==
    /\ call[c].pc = "item_send"
    /\ LET r == call[c]
       IN  \/ Step(c, NextCandidate(
                  [Sent(r, TRUE, 0) EXCEPT
                      !.last_error = RecordError(r.last_error, TransportErrorText(r.url))]))
           \/ \E code \in StatusCodes :
                  Step(c, IF IsSuccess(code)
                          THEN [Sent(r, FALSE, code) EXCEPT !.pc = "item_text"]
                          ELSE NextCandidate(
                                   [Sent(r, FALSE, code) EXCEPT
                                       !.last_error =
                                           RecordError(r.last_error, StatusCodeError(code))]))
    /\ UNCHANGED <<cache, lock, stored, Rest>>

\* A loop that takes a body that cannot be read like a failed GET and goes
\* on to the next item type.
ContinueOnBodyError(r) ==
    NextCandidate([BodyRead(r, "failed") EXCEPT
                      !.last_error = RecordError(r.last_error, BodyErrorText)])

\* Err(e) of response.text().await: return the text of the failure (851-854).
ReturnOnBodyError(r) ==
    LeaveLookupItem(BodyRead(r, "failed"), ReadBodyFailed(BodyErrorText), "failed")

\* response.text().await and parse_html (851-857).
LookupItemText(c) ==
    /\ call[c].pc = "item_text"
    /\ LET r == call[c]
       IN  \/ Step(c, ReturnOnBodyError(r))
           \/ Step(c, [BodyRead(r, "read") EXCEPT
                          !.markdown_body = ParseHtml(PageAt(r.url)),
                          !.pc = "item_set"])
    /\ UNCHANGED <<cache, lock, stored, Rest>>

\* self.cache.set(cache_key, markdown_body.clone()).await; return (860-862).
LookupItemSet(c) ==
    /\ call[c].pc = "item_set"
    /\ DocCacheSet(c, call[c].cache_key, call[c].markdown_body)
    /\ Step(c, LeaveLookupItem(call[c], call[c].markdown_body, "stored"))
    /\ UNCHANGED Rest

\* lookup_item_tool (155-172): the call, up to the first await of lookup_item.
LookupItemToolOf(c, crate_names, item_paths, versions) ==
    /\ Ready(c)
    /\ \E crate_name \in crate_names, item_path \in item_paths, version \in versions :
           Begin(c, EnterLookupItem(
                        [IdleCall EXCEPT !.op = "lookup_item_tool",
                                         !.crate_name = crate_name,
                                         !.item_path = item_path,
                                         !.version = version]))
    /\ UNCHANGED <<cache, lock, stored, Rest>>

LookupItemTool(c) == LookupItemToolOf(c, CrateNames, ItemPaths, Versions)

(***************************************************************************)
(* lookup_crate (88-150)                                                   *)
(***************************************************************************)
LookupCrateOf(c, crate_names, versions) ==
    /\ Ready(c)
    /\ \E crate_name \in crate_names, version \in versions :
           Begin(c, [IdleCall EXCEPT !.op = "lookup_crate",
                                     !.crate_name = crate_name,
                                     !.version = version,
                                     !.cache_key = CrateCacheKey(crate_name, version),
                                     !.pc = "crate_get"])
    /\ UNCHANGED <<cache, lock, stored, Rest>>

LookupCrate(c) == LookupCrateOf(c, CrateNames, Versions)

\* self.cache.get(&cache_key).await (105-114)
LookupCrateGet(c) ==
    /\ call[c].pc = "crate_get"
    /\ LET r == call[c]
           doc == MapGet(cache, r.cache_key)
       IN  Step(c, IF doc.some THEN Return(r, doc.val, "hit")
                   ELSE [r EXCEPT !.url = CrateUrl(r.crate_name, r.version),
                                  !.pc = "crate_send"])
    /\ DocCacheGet(c)
    /\ UNCHANGED Rest

\* send().await and the status check (117-136)
LookupCrateSend(c) ==
    /\ call[c].pc = "crate_send"
    /\ LET r == call[c]
       IN  \/ Step(c, Return(Sent(r, TRUE, 0), FetchFailed(TransportErrorText(r.url)),
                             "failed"))
           \/ \E code \in StatusCodes :
                  Step(c, IF IsSuccess(code)
                          THEN [Sent(r, FALSE, code) EXCEPT !.pc = "crate_text"]
                          ELSE Return(Sent(r, FALSE, code), FetchStatus(code), "failed"))
    /\ UNCHANGED <<cache, lock, stored, Rest>>

\* response.text().await and parse_html (138-144)
LookupCrateText(c) ==
    /\ call[c].pc = "crate_text"
    /\ LET r == call[c]
       IN  \/ Step(c, Return(BodyRead(r, "failed"), ReadBodyFailed(BodyErrorText), "failed"))
           \/ Step(c, [BodyRead(r, "read") EXCEPT
                          !.markdown_body = ParseHtml(PageAt(r.url)),
                          !.pc = "crate_set"])
    /\ UNCHANGED <<cache, lock, stored, Rest>>

\* self.cache.set(cache_key, markdown_body.clone()).await; markdown_body (147-149)
LookupCrateSet(c) ==
    /\ call[c].pc = "crate_set"
    /\ DocCacheSet(c, call[c].cache_key, call[c].markdown_body)
    /\ Step(c, Return(call[c], call[c].markdown_body, "stored"))
    /\ UNCHANGED Rest

(***************************************************************************)
(* search_crates (175-225)                                                 *)
(***************************************************************************)
SearchCrates(c) ==
    /\ Ready(c)
    /\ \E query \in Queries, limit \in Limits :
           Begin(c, [IdleCall EXCEPT !.op = "search_crates",
                                     !.query = query,
                                     !.limit = limit,
                                     !.url = SearchUrl(query, limit),
                                     !.pc = "search_send"])
    /\ UNCHANGED <<cache, lock, stored, Rest>>

\* send().await and the status check (194-210)
SearchCratesSend(c) ==
    /\ call[c].pc = "search_send"
    /\ LET r == call[c]
       IN  \/ Step(c, Return(Sent(r, TRUE, 0), SearchFailed(TransportErrorText(r.url)),
                             "failed"))
           \/ \E code \in StatusCodes :
                  Step(c, IF IsSuccess(code)
                          THEN [Sent(r, FALSE, code) EXCEPT !.pc = "search_text"]
                          ELSE Return(Sent(r, FALSE, code), SearchStatus(code), "failed"))
    /\ UNCHANGED <<cache, lock, stored, Rest>>

\* A payload that is always the markdown of the body.
AlwaysMarkdown(body) == ParseHtml(body)

\* The payload for a body that was read (218-224).
SearchPayload(body) ==
    IF StartsWith(Trim(body), <<"{">>) THEN body ELSE ParseHtml(body)

\* response.text().await and the JSON check (212-224)
SearchCratesText(c) ==
    /\ call[c].pc = "search_text"
    /\ LET r == call[c]
       IN  \/ Step(c, Return(BodyRead(r, "failed"), ReadBodyFailed(BodyErrorText), "failed"))
           \/ \E body \in SearchBodies :
                  Step(c, Return([BodyRead(r, "read") EXCEPT !.body = body],
                                 SearchPayload(body), "fetched"))
    /\ UNCHANGED <<cache, lock, stored, Rest>>

(***************************************************************************)
(* lookup_item_examples (228-406) and analyze_type_relationships (409-759) *)
(***************************************************************************)
LookupItemExamplesOf(c, crate_names, item_paths, versions) ==
    /\ Ready(c)
    /\ \E crate_name \in crate_names, item_path \in item_paths, version \in versions :
           Begin(c, [IdleCall EXCEPT !.op = "lookup_item_examples",
                                     !.crate_name = crate_name,
                                     !.item_path = item_path,
                                     !.version = version,
                                     !.derived_key =
                                         ExamplesCacheKey(crate_name, version, item_path),
                                     !.pc = "examples_get"])
    /\ UNCHANGED <<cache, lock, stored, Rest>>

LookupItemExamples(c) == LookupItemExamplesOf(c, CrateNames, ItemPaths, Versions)

\* self.cache.get(&cache_key).await; on a miss lookup_item is called (251-256)
LookupItemExamplesGet(c) ==
    /\ call[c].pc = "examples_get"
    /\ LET r == call[c]
           examples == MapGet(cache, r.derived_key)
       IN  Step(c, IF examples.some THEN Return(r, examples.val, "hit")
                   ELSE EnterLookupItem(r))
    /\ DocCacheGet(c)
    /\ UNCHANGED Rest

\* self.cache.set(cache_key, examples_content.clone()).await; examples_content
\* (403-405)
LookupItemExamplesSet(c) ==
    /\ call[c].pc = "examples_set"
    /\ DocCacheSet(c, call[c].derived_key, call[c].derived)
    /\ Step(c, Return(call[c], call[c].derived, "stored"))
    /\ UNCHANGED Rest

AnalyzeTypeRelationshipsOf(c, crate_names, item_paths, versions) ==
    /\ Ready(c)
    /\ \E crate_name \in crate_names, item_path \in item_paths, version \in versions :
           Begin(c, [IdleCall EXCEPT !.op = "analyze_type_relationships",
                                     !.crate_name = crate_name,
                                     !.item_path = item_path,
                                     !.version = version,
                                     !.derived_key =
                                         RelationshipsCacheKey(crate_name, version, item_path),
                                     !.pc = "relationships_get"])
    /\ UNCHANGED <<cache, lock, stored, Rest>>

AnalyzeTypeRelationships(c) == AnalyzeTypeRelationshipsOf(c, CrateNames, ItemPaths, Versions)

\* self.cache.get(&cache_key).await; on a miss lookup_item is called (432-437)
AnalyzeTypeRelationshipsGet(c) ==
    /\ call[c].pc = "relationships_get"
    /\ LET r == call[c]
           relationships == MapGet(cache, r.derived_key)
       IN  Step(c, IF relationships.some THEN Return(r, relationships.val, "hit")
                   ELSE EnterLookupItem(r))
    /\ DocCacheGet(c)
    /\ UNCHANGED Rest

\* self.cache.set(cache_key, relationships.clone()).await; relationships (756-758)
AnalyzeTypeRelationshipsSet(c) ==
    /\ call[c].pc = "relationships_set"
    /\ DocCacheSet(c, call[c].derived_key, call[c].derived)
    /\ Step(c, Return(call[c], call[c].derived, "stored"))
    /\ UNCHANGED Rest

(***************************************************************************)
(* The router with its clients                                             *)
(***************************************************************************)
\* CargoDocRouter::new and one client that has not called yet.
Init ==
    /\ cache = EmptyMap
    /\ examples_cache = EmptyMap
    /\ callers = {1}
    /\ call = [c \in callers |-> IdleCall]
    /\ prev = [c \in callers |-> NoneOpt]
    /\ started = [c \in callers |-> 0]
    /\ last_set = <<>>
    /\ got = NoneOpt
    /\ text_in = <<>>
    /\ text_out = NoneOpt
    /\ text_args = <<>>
    /\ lock = 0
    /\ stored = {}

Next ==
    \/ \E c \in callers : DocCacheLock(c)
    \/ \E c \in callers : LookupCrate(c)
    \/ \E c \in callers : LookupCrateGet(c)
    \/ \E c \in callers : LookupCrateSend(c)
    \/ \E c \in callers : LookupCrateText(c)
    \/ \E c \in callers : LookupCrateSet(c)
    \/ \E c \in callers : LookupItemTool(c)
    \/ \E c \in callers : LookupItemGet(c)
    \/ \E c \in callers : LookupItemSend(c)
    \/ \E c \in callers : LookupItemText(c)
    \/ \E c \in callers : LookupItemSet(c)
    \/ \E c \in callers : SearchCrates(c)
    \/ \E c \in callers : SearchCratesSend(c)
    \/ \E c \in callers : SearchCratesText(c)
    \/ \E c \in callers : LookupItemExamples(c)
    \/ \E c \in callers : LookupItemExamplesGet(c)
    \/ \E c \in callers : LookupItemExamplesSet(c)
    \/ \E c \in callers : AnalyzeTypeRelationships(c)
    \/ \E c \in callers : AnalyzeTypeRelationshipsGet(c)
    \/ \E c \in callers : AnalyzeTypeRelationshipsSet(c)

Spec == Init /\ [][Next]_vars

(***************************************************************************)
(* DocCache on its own: a client that only sets and gets (44-63)           *)
(***************************************************************************)
CacheKeys == {<<"test_key">>, <<"other_key">>}

CacheTexts == {<<"test_value">>, <<"other_value">>}

\* Vec<CodeExample>
ExampleSets ==
    { <<>>,
      <<[title |-> <<"Example", " 1">>, code |-> <<"let x ", "=", " 1", ";">>,
         description |-> <<"An ", "example">>]>> }

\* DocCache::set
CacheSet ==
    /\ \E key \in CacheKeys, value \in CacheTexts :
           /\ cache' = MapInsert(cache, key, value)
           /\ last_set' = [last_set EXCEPT !.documents[key] = Some(value)]
    /\ UNCHANGED <<examples_cache, got, callers, call, prev, started, text_in, text_out,
                   text_args, lock, stored>>

\* DocCache::get
CacheGet ==
    /\ \E key \in CacheKeys :
           got' = Some([namespace |-> "documents", key |-> key,
                        value |-> MapGet(cache, key),
                        latest |-> last_set.documents[key]])
    /\ UNCHANGED <<cache, examples_cache, last_set, callers, call, prev, started,
                   text_in, text_out, text_args, lock, stored>>

\* DocCache::set_examples
CacheSetExamples ==
    /\ \E key \in CacheKeys, examples \in ExampleSets :
           /\ examples_cache' = MapInsert(examples_cache, key, examples)
           /\ last_set' = [last_set EXCEPT !.examples[key] = Some(examples)]
    /\ UNCHANGED <<cache, got, callers, call, prev, started, text_in, text_out,
                   text_args, lock, stored>>

\* DocCache::get_examples
CacheGetExamples ==
    /\ \E key \in CacheKeys :
           got' = Some([namespace |-> "examples", key |-> key,
                        value |-> MapGet(examples_cache, key),
                        latest |-> last_set.examples[key]])
    /\ UNCHANGED <<cache, examples_cache, last_set, callers, call, prev, started,
                   text_in, text_out, text_args, lock, stored>>

\* DocCache::new, nothing set yet.
InitCache ==
    /\ cache = EmptyMap
    /\ examples_cache = EmptyMap
    /\ callers = {}
    /\ call = <<>>
    /\ prev = <<>>
    /\ started = <<>>
    /\ last_set = [documents |-> [key \in CacheKeys |-> NoneOpt],
                   examples |-> [key \in CacheKeys |-> NoneOpt]]
    /\ got = NoneOpt
    /\ text_in = <<>>
    /\ text_out = NoneOpt
    /\ text_args = <<>>
    /\ lock = 0
    /\ stored = {}

NextCache ==
    \/ CacheSet
    \/ CacheGet
    \/ CacheSetExamples
    \/ CacheGetExamples

SpecCache == InitCache /\ [][NextCache]_vars

(***************************************************************************)
(* The example extractor on its own                                        *)
(***************************************************************************)
MaxDocLines == 4

\* Lines a resolved document is made of.
ExampleLines ==
    { <<"#", "#", " ", "Example", "s">>,
      <<"#", " ", "Other">>,
      <<"'''", "rust">>,
      <<"'''">>,
      <<"let x ", "=", " 1", ";">>,
      <<"A ", "struct", " named ", "Lumin", ".">>,
      <<"The ", "Trait", " ", "Lumin", ".">>,
      <<"An ", "enum", " or a ", "fn", " ", "lumin", ".">>,
      <<"fn", " ", "lumin", "(", ")">> }

RECURSIVE FromLines(_)
\* The document with the given lines, each ended by a line feed.
FromLines(doc_lines) ==
    IF doc_lines = <<>> THEN <<>>
    ELSE Head(doc_lines) \o <<NL>> \o FromLines(Tail(doc_lines))

\* Every sequence of at most n elements of S.
SeqsUpTo(S, n) == UNION {[1..k -> S] : k \in 0..n}

\* lookup_item_examples from doc_content on (258-400), for the crate serde.
ExamplesFromDocument ==
    /\ text_out = NoneOpt
    /\ text_out' = Some(ExtractExamples(text_in, <<"serde">>, text_args))
    /\ UNCHANGED <<cache, examples_cache, callers, call, prev, started, last_set, got, text_in,
                   text_args, lock, stored>>

InitExamples ==
    /\ cache = EmptyMap
    /\ examples_cache = EmptyMap
    /\ callers = {}
    /\ call = <<>>
    /\ prev = <<>>
    /\ started = <<>>
    /\ last_set = <<>>
    /\ got = NoneOpt
    /\ text_in \in {FromLines(doc_lines) : doc_lines \in SeqsUpTo(ExampleLines, MaxDocLines)}
    /\ text_out = NoneOpt
    /\ text_args = <<"Lumin">>
    /\ lock = 0
    /\ stored = {}

NextExamples == ExamplesFromDocument

SpecExamples == InitExamples /\ [][NextExamples]_vars

(***************************************************************************)
(* The relationship analyzer on its own                                    *)
(***************************************************************************)
MaxSignatureLines == 3

\* Lines of a resolved document that the analyzer tells apart.
SignatureLines ==
    { <<"pub ", "fn", " ", "foo", "(", "&", "self", ",", " ", "x", ":", " ", "i32", ")", " ",
        "-", ">", " ", "Result", "<", "String", ",", " ", "Error", ">">>,
      <<"pub ", "fn", " ", "open", "(", "path", ":", " ", "std", ":", ":", "path", ":", ":",
        "PathBuf", ")", " ", "-", ">", " ", "File", " ", "{">>,
      <<"fn", " ", "new", "(", ")", " ", "-", ">", " ", "Self", ";">>,
      <<"fn", " ", "get", "(", "&", "mut", " ", "self", ",", " ", "k", ":", " ", "&", "str", ")",
        " ", "-", ">", " ", "Option", "<", "String", ">", ";">>,
      <<"fn", " ", "len", "(", "&", "self", ")", " ", "-", ">", " ", "usize", " ", "{">>,
      <<" ", " ", "fn", " ", "size", "(", "&", "self", ")", " ", "-", ">", " ", "usize", ";">>,
      <<"fn", " ", "nothing", "(", ")", " ", "-", ">", " ", ";">>,
      <<"Returns the length.">> }

\* analyze_type_relationships from item_doc on (439-753), for the crate serde.
RelationshipsFromDocument ==
    /\ text_out = NoneOpt
    /\ text_out' = Some(AnalyzeRelationships(text_in, <<"serde">>, text_args))
    /\ UNCHANGED <<cache, examples_cache, callers, call, prev, started, last_set, got, text_in,
                   text_args, lock, stored>>

InitRelationships ==
    /\ cache = EmptyMap
    /\ examples_cache = EmptyMap
    /\ callers = {}
    /\ call = <<>>
    /\ prev = <<>>
    /\ started = <<>>
    /\ last_set = <<>>
    /\ got = NoneOpt
    /\ text_in \in {FromLines(doc_lines) : doc_lines \in SeqsUpTo(SignatureLines, MaxSignatureLines)}
    /\ text_out = NoneOpt
    /\ text_args \in ItemPaths
    /\ lock = 0
    /\ stored = {}

NextRelationships == RelationshipsFromDocument

SpecRelationships == InitRelationships /\ [][NextRelationships]_vars

(***************************************************************************)
(* lookup_item_tool for item paths with no item in them                    *)
(***************************************************************************)
\* The empty path, and the crate prefix with nothing after it.
EmptyItemPaths == {<<>>, <<"serde", ":", ":">>}

NextEmptyPath ==
    \/ \E c \in callers : DocCacheLock(c)
    \/ \E c \in callers : LookupItemToolOf(c, CrateNames, EmptyItemPaths, Versions)
    \/ \E c \in callers : LookupItemGet(c)
    \/ \E c \in callers : LookupItemSend(c)
    \/ \E c \in callers : LookupItemText(c)
    \/ \E c \in callers : LookupItemSet(c)

SpecEmptyPath == Init /\ [][NextEmptyPath]_vars

(***************************************************************************)
(* Clients that call the router at the same time                           *)
(***************************************************************************)
MaxCallers == 2

\* The pcs at which a call waits for the upstream: send().await and
\* response.text().await.
FetchPoints ==
    {"crate_send", "crate_text", "item_send", "item_text", "search_send", "search_text"}

\* The caller drops the future of its call at an await: waiting for the guard
\* or for the upstream. Nothing of the call runs after that. A call that holds
\* the guard is not at an await.
Abandon(c) ==
    /\ call[c].pc \in LockPoints \cup FetchPoints
    /\ lock # c
    /\ call' = [call EXCEPT ![c] = [IdleCall EXCEPT !.pc = "abandoned"]]
    /\ UNCHANGED <<cache, lock, stored, prev, started, Rest>>

\* One router, MaxCallers clients, each with one call to make.
InitConcurrent ==
    /\ cache = EmptyMap
    /\ examples_cache = EmptyMap
    /\ callers = 1..MaxCallers
    /\ call = [c \in callers |-> IdleCall]
    /\ prev = [c \in callers |-> NoneOpt]
    /\ started = [c \in callers |-> MaxCalls - 1]
    /\ last_set = <<>>
    /\ got = NoneOpt
    /\ text_in = <<>>
    /\ text_out = NoneOpt
    /\ text_args = <<>>
    /\ lock = 0
    /\ stored = {}

NextConcurrent ==
    \/ \E c \in callers : DocCacheLock(c)
    \/ \E c \in callers : Abandon(c)
    \/ \E c \in callers : LookupCrateOf(c, {<<"serde">>}, {NoneOpt})
    \/ \E c \in callers : LookupCrateGet(c)
    \/ \E c \in callers : LookupCrateSend(c)
    \/ \E c \in callers : LookupCrateText(c)
    \/ \E c \in callers : LookupCrateSet(c)
    \/ \E c \in callers : LookupItemToolOf(c, {<<"serde">>}, {<<"Lumin">>}, {NoneOpt})
    \/ \E c \in callers :
           LookupItemToolOf(c, {<<"example", "s">>}, {<<"Lumin">>}, {Some(<<"serde">>)})
    \/ \E c \in callers : LookupItemGet(c)
    \/ \E c \in callers : LookupItemSend(c)
    \/ \E c \in callers : LookupItemText(c)
    \/ \E c \in callers : LookupItemSet(c)
    \/ \E c \in callers : LookupItemExamplesOf(c, {<<"serde">>}, {<<"Lumin">>}, {NoneOpt})
    \/ \E c \in callers : LookupItemExamplesGet(c)
    \/ \E c \in callers : LookupItemExamplesSet(c)

SpecConcurrent == InitConcurrent /\ [][NextConcurrent]_vars

(***************************************************************************)
(* Properties of the router                                                *)
(***************************************************************************)
\* The candidate kinds in the order the contract gives them.
CandidateKinds == <<"struct", "enum", "trait", "fn", "macro">>

\* The operations that resolve an item through lookup_item.
ItemOps == {"lookup_item_tool", "lookup_item_examples", "analyze_type_relationships"}

\* The operations that read and write the document cache.
LookupOps == ItemOps \cup {"lookup_crate"}

\* "<crate_name>::"
CratePrefix(crate_name) == crate_name \o <<":", ":">>

\* C1: lookup_item fetches the candidate kinds in the order struct, enum,
\* trait, fn, macro: the i-th GET of a call goes to the URL of the i-th kind, a
\* GET is issued (or pending) only when every earlier GET of the call failed,
\* no GET follows a success, and a document that was fetched is the page of
\* the one kind whose GET succeeded.
C1_CandidateOrder ==
    \A c \in callers :
        LET r == call[c]
            n == Len(r.fetches)
        IN  r.op \in ItemOps =>
                /\ n <= Len(CandidateKinds)
                /\ \A i \in 1..n :
                       /\ r.fetches[i].url =
                              ItemUrl(r.crate_name, r.version, r.path, CandidateKinds[i])
                       /\ (i < n => ~r.fetches[i].ok)
                /\ (r.pc = "item_send" =>
                        /\ \A i \in 1..n : ~r.fetches[i].ok
                        /\ n < Len(CandidateKinds)
                        /\ r.url = ItemUrl(r.crate_name, r.version, r.path,
                                           CandidateKinds[n + 1]))
                /\ (r.resolved = "stored" =>
                        /\ n >= 1
                        /\ r.fetches[n].ok
                        /\ r.item_doc = Some(ParseHtml(PageAt(r.fetches[n].url))))
                /\ (r.op = "lookup_item_tool" /\ r.pc = "done" => r.result = r.item_doc)

\* C1 witness: struct, enum and trait failed, fn succeeded, and the call
\* returned the page of the function.
C1_FunctionAfterThreeFailures ==
    \E c \in callers :
        LET r == call[c]
        IN  /\ r.op = "lookup_item_tool"
            /\ r.pc = "done"
            /\ Len(r.fetches) = 4
            /\ \A i \in 1..3 : ~r.fetches[i].ok
            /\ r.fetches[4].ok
            /\ r.result =
                   Some(ParseHtml(PageAt(ItemUrl(r.crate_name, r.version, r.path, "fn"))))

\* The call of c repeats, argument for argument, the lookup that c finished
\* just before it.
Repeated(c) ==
    /\ prev[c].some
    /\ call[c].op \in LookupOps
    /\ call[c].op = prev[c].val.op
    /\ call[c].crate_name = prev[c].val.crate_name
    /\ call[c].item_path = prev[c].val.item_path
    /\ call[c].version = prev[c].val.version

\* C2: a lookup that repeats the lookup before it, when that one did not end
\* in a failure text, issues no GET and returns the same payload.
C2_RepeatedLookup ==
    \A c \in callers :
        Repeated(c) /\ prev[c].val.outcome # "failed" =>
            /\ call[c].fetches = <<>>
            /\ (call[c].pc = "done" => call[c].result = Some(prev[c].val.result))

\* C2 witness: lookup_item_tool stored a page, and the same call again was
\* answered from the cache.
C2_SecondCallHits ==
    \E c \in callers :
        /\ Repeated(c)
        /\ call[c].op = "lookup_item_tool"
        /\ prev[c].val.outcome = "stored"
        /\ call[c].pc = "done"
        /\ call[c].outcome = "hit"
        /\ call[c].result = Some(prev[c].val.result)

\* C2 as stated: every repeated lookup, whatever the first one ended in,
\* issues no GET and returns the same payload.
C2_EveryRepeatedLookup ==
    \A c \in callers :
        Repeated(c) =>
            /\ call[c].fetches = <<>>
            /\ (call[c].pc = "done" => call[c].result = Some(prev[c].val.result))

\* The error of the latest GET of a call, as text: the transport error, the
\* status that is no success, or the body that could not be read.
AnswerFailed(r) ==
    /\ r.fetches # <<>>
    /\ (r.answer.error \/ ~IsSuccess(r.answer.status) \/ r.answer.body = "failed")

AnswerErrorText(r) ==
    IF r.answer.error THEN TransportErrorText(r.fetches[Len(r.fetches)].url)
    ELSE IF ~IsSuccess(r.answer.status) THEN StatusText(r.answer.status)
    ELSE BodyErrorText

\* C4: when all five GETs of lookup_item failed, what lookup_item returns
\* names the condition and ends in the error of the fifth GET (macro).
C4_LastErrorReported ==
    \A c \in callers :
        LET r == call[c]
        IN  /\ r.op \in ItemOps
            /\ r.item_doc.some
            /\ Len(r.fetches) = Len(CandidateKinds)
            /\ ~r.fetches[Len(CandidateKinds)].ok
            =>  /\ StartsWith(r.item_doc.val, <<"Failed to fetch item documentation. No matching item found. Last error">>)
                /\ EndsWith(r.item_doc.val, AnswerErrorText(r))
                /\ r.resolved = "failed"

\* C4 witness: five failures, the fifth a transport error at the macro URL,
\* and the payload of lookup_item_tool carries that error.
C4_MacroErrorReturned ==
    \E c \in callers :
        LET r == call[c]
        IN  /\ r.op = "lookup_item_tool"
            /\ r.pc = "done"
            /\ Len(r.fetches) = 5
            /\ \A i \in 1..5 : ~r.fetches[i].ok
            /\ r.answer.error
            /\ r.result =
                   Some(NoMatchingItem(Some(TransportErrorText(
                       ItemUrl(r.crate_name, r.version, r.path, "macro")))))

\* C5 as stated: whenever the latest GET of a finished call failed, the
\* payload of the call carries the text of that failure.
C5_FailureDescribed ==
    \A c \in callers :
        LET r == call[c]
        IN  r.pc = "done" /\ AnswerFailed(r) =>
                /\ r.result.some
                /\ Contains(r.result.val, AnswerErrorText(r))

\* C6: with X not itself beginning with "p::", lookup_item for p and "p::X"
\* and lookup_item for p and "X" use the key of X, fetch the URLs of X in the
\* order of the kinds and return the page fetched there; and when one of the
\* two calls follows the other, which stored or found the document, it finds
\* that document in the cache.
C6_PrefixStripped ==
    \A c \in callers :
        LET r == call[c]
            p == r.crate_name
        IN  \A X \in ItemPaths :
                /\ r.op \in ItemOps
                /\ r.cache_key # <<>>
                /\ ~StartsWith(X, CratePrefix(p))
                /\ r.item_path \in {X, CratePrefix(p) \o X}
                =>  /\ r.cache_key = ItemCacheKey(p, r.version, X)
                    /\ \A i \in 1..Len(r.fetches) :
                           r.fetches[i].url = ItemUrl(p, r.version, X, CandidateKinds[i])
                    /\ (/\ prev[c].some
                        /\ r.op = "lookup_item_tool"
                        /\ prev[c].val.op = "lookup_item_tool"
                        /\ prev[c].val.crate_name = p
                        /\ prev[c].val.version = r.version
                        /\ prev[c].val.item_path \in {X, CratePrefix(p) \o X}
                        /\ prev[c].val.outcome # "failed"
                        =>  /\ r.fetches = <<>>
                            /\ (r.pc = "done" => r.result = Some(prev[c].val.result)))

\* C6 witness: lookup_item_tool for serde and Lumin stored the page, and the
\* call for serde and serde::Lumin that followed found it.
C6_PrefixedCallHits ==
    \E c \in callers :
        /\ prev[c].some
        /\ prev[c].val.op = "lookup_item_tool"
        /\ prev[c].val.crate_name = <<"serde">>
        /\ prev[c].val.item_path = <<"Lumin">>
        /\ prev[c].val.outcome = "stored"
        /\ call[c].op = "lookup_item_tool"
        /\ call[c].crate_name = <<"serde">>
        /\ call[c].item_path = <<"serde", ":", ":", "Lumin">>
        /\ call[c].version = prev[c].val.version
        /\ call[c].pc = "done"
        /\ call[c].outcome = "hit"
        /\ call[c].result = Some(prev[c].val.result)

\* C6 as stated, for every X: the call with "X" uses the key and the URLs
\* that the call with "p::X" uses, those of X.
C6_EveryPath ==
    \A c \in callers :
        LET r == call[c]
            p == r.crate_name
        IN  \A X \in ItemPaths :
                /\ r.op \in ItemOps
                /\ r.cache_key # <<>>
                /\ r.item_path \in {X, CratePrefix(p) \o X}
                =>  /\ r.cache_key = ItemCacheKey(p, r.version, X)
                    /\ \A i \in 1..Len(r.fetches) :
                           r.fetches[i].url = ItemUrl(p, r.version, X, CandidateKinds[i])

\* C8 as stated: every payload of lookup_item_examples has the heading
\* "Usage Examples" and a code fence.
C8_HeadingAndFence ==
    \A c \in callers :
        LET r == call[c]
        IN  r.op = "lookup_item_examples" /\ r.pc = "done" =>
                /\ Contains(r.result.val, <<"Usage", " ", "Example", "s">>)
                /\ Contains(r.result.val, Fence)

(***************************************************************************)
(* Properties of DocCache                                                  *)
(***************************************************************************)
\* C3: in both namespaces a get returns the value of the latest set on its
\* key, and None for a key that was never set.
C3_GetReturnsLatestSet ==
    got.some => got.val.value = got.val.latest

\* C3 witness: test_key was set twice, last to other_value, and get returned
\* other_value; other_key was never set.
C3_SecondValueRead ==
    /\ got.some
    /\ got.val.namespace = "documents"
    /\ got.val.key = <<"test_key">>
    /\ got.val.value = Some(<<"other_value">>)
    /\ last_set.documents[<<"other_key">>] = NoneOpt
    /\ last_set.examples[<<"test_key">>] = Some(<<>>)

(***************************************************************************)
(* Properties of the example extractor                                     *)
(***************************************************************************)
\* The output of the first of the three stages that has a code fence.
FirstFencedStage(doc_content, crate_name, item_path) ==
    LET doc_lines == Lines(doc_content)
    IN  IF Contains(SectionScan(doc_lines), Fence) THEN SectionScan(doc_lines)
        ELSE IF Contains(BlockScan(doc_lines), Fence) THEN BlockScan(doc_lines)
        ELSE GeneratedExamples(doc_content, crate_name, item_path)

\* C7 as stated: the examples are the output of the first stage that yields
\* fenced code: the section scan, else the scan of the whole document, else
\* the generated example.
C7_FirstFencedStageWins ==
    text_out.some => text_out.val = FirstFencedStage(text_in, <<"serde">>, <<"Lumin">>)

(***************************************************************************)
(* Properties of the relationship analyzer                                 *)
(***************************************************************************)
\* The lines of the section of a report under the heading line title, up to
\* the next heading of level two.
SectionLines(report, title) ==
    LET report_lines == Lines(report)
        starts == {i \in 1..Len(report_lines) : report_lines[i] = title}
        start == CHOOSE i \in starts : \A j \in starts : i <= j
        ends == {i \in (start + 1)..Len(report_lines) :
                     StartsWith(report_lines[i], <<"#", "#">>)}
        end == IF ends = {} THEN Len(report_lines) + 1
               ELSE CHOOSE i \in ends : \A j \in ends : i <= j
    IN  IF starts = {} THEN <<>> ELSE SubSeq(report_lines, start + 1, end - 1)

IsEntryLine(line) == StartsWith(line, <<"- ", "'">>)

\* The types listed in a section, in the order of the list.
Entries(section_lines) ==
    LET entry_lines == SelectSeq(section_lines, IsEntryLine)
    IN  [i \in 1..Len(entry_lines) |->
            SubSeq(entry_lines[i], 3, Len(entry_lines[i]) - 2)]

RECURSIVE FirstSeen(_)
\* A sequence without its repetitions, each element where it first occurs.
FirstSeen(seq) ==
    IF seq = <<>> THEN <<>>
    ELSE LET front == FirstSeen(SubSeq(seq, 1, Len(seq) - 1))
         IN  IF VecContains(front, seq[Len(seq)]) THEN front
             ELSE Append(front, seq[Len(seq)])

IsNamedType(text) == text # <<>> /\ ~Contains(text, <<"Self">>)

\* The return types the lines of a document give, line by line.
ReturnTypesOf(doc_content) ==
    LET signatures == SelectSeq(Lines(doc_content), IsSignatureLine)
    IN  SelectSeq([i \in 1..Len(signatures) |-> ReturnTypeText(signatures[i])], IsNamedType)

\* C9: the Return Types section lists, once each and in the order of their
\* first line, the return types of the signature lines that are neither empty
\* nor contain Self, and an entry that starts with Result< is followed by the
\* guidance for Result.
C9_ReturnTypesListed ==
    text_out.some =>
        LET listed == SectionLines(text_out.val, <<"#", "#", " ", "Return Types">>)
        IN  /\ Entries(listed) = FirstSeen(ReturnTypesOf(text_in))
            /\ \A i \in 1..Len(listed) :
                   IsEntryLine(listed[i]) /\ StartsWith(DropFirst(listed[i], 2), <<"Result", "<">>)
                   =>  /\ i < Len(listed)
                       /\ StartsWith(listed[i + 1], <<"  - This is a Result ">>)

\* C9 witness: len, foo and size, in this order: usize is listed once, before
\* the Result of foo, and the Result has its guidance.
C9_TwoTypesFromThreeLines ==
    /\ text_out.some
    /\ Len(ReturnTypesOf(text_in)) = 3
    /\ Entries(SectionLines(text_out.val, <<"#", "#", " ", "Return Types">>)) =
           << <<"usize">>, <<"Result", "<", "String", ",", " ", "Error", ">">> >>
    /\ Contains(text_out.val, <<"  - This is a Result ">>)

\* The text after the first separator of a parameter.
WholeParameterType(param) == Trim(DropFirst(param, Find(param, <<":">>)))

HasSeparator(param) == Contains(param, <<":">>)

IsReceiver(text) == text \in {<<"self">>, <<"&", "self">>, <<"&", "mut", " ", "self">>}

IsListedParameterType(text) == IsNamedType(text) /\ ~IsReceiver(text)

RECURSIVE ParameterTypesOfLines(_)
ParameterTypesOfLines(signatures) ==
    IF signatures = <<>> THEN <<>>
    ELSE LET params == IF ParamsText(Head(signatures)).some
                       THEN SelectSeq(Split(ParamsText(Head(signatures)).val, <<",">>),
                                      HasSeparator)
                       ELSE <<>>
         IN  [i \in 1..Len(params) |-> WholeParameterType(params[i])]
             \o ParameterTypesOfLines(Tail(signatures))

\* C10 as stated: the Parameter Types section lists, once each, for every
\* parameter with a separator the whole text after the separator, receivers
\* left out.
C10_WholeParameterTypes ==
    text_out.some =>
        Entries(SectionLines(text_out.val, <<"#", "#", " ", "Parameter Types">>)) =
            FirstSeen(SelectSeq(
                ParameterTypesOfLines(SelectSeq(Lines(text_in), IsSignatureLine)),
                IsListedParameterType))

\* C11: the report has the section Working with Result types exactly when a
\* captured return type starts with Result<, the section Working with Option
\* types exactly when one starts with Option<, and its first line is the title
\* with the item path as it was passed.
C11_GuidanceSections ==
    text_out.some =>
        LET types == ReturnTypesOf(text_in)
            report_lines == Lines(text_out.val)
        IN  /\ VecContains(report_lines, <<"#", "#", " ", "Working with Result ", "type", "s">>)
                   <=> (\E i \in 1..Len(types) : StartsWith(types[i], <<"Result", "<">>))
            /\ VecContains(report_lines, <<"#", "#", " ", "Working with Option ", "type", "s">>)
                   <=> (\E i \in 1..Len(types) : StartsWith(types[i], <<"Option", "<">>))
            /\ report_lines[1] = <<"#", " ", "Type Relationships ", "for", " ">> \o text_args

\* C11 witness: for serde::Lumin, a document with the Result of foo and
\* without an Option: the report has the first section and not the second.
C11_ResultWithoutOption ==
    /\ text_out.some
    /\ text_args = <<"serde", ":", ":", "Lumin">>
    /\ Contains(text_out.val, <<NL, "#", "#", " ", "Working with Result ", "type", "s", NL>>)
    /\ ~Contains(text_out.val, <<NL, "#", "#", " ", "Working with Option ", "type", "s", NL>>)
    /\ Len(ReturnTypesOf(text_in)) = 2

(***************************************************************************)
(* Properties of search_crates                                             *)
(***************************************************************************)
\* The per_page value the contract gives for a limit: 10 without one, else
\* the limit brought into 1..100.
ClampedLimit(limit) ==
    IF ~limit.some THEN 10
    ELSE IF limit.val > 100 THEN 100
    ELSE IF limit.val < 1 THEN 1
    ELSE limit.val

\* C12 as stated: the GET of search_crates goes to the registry URL whose
\* per_page is the limit clamped to 1..100, 10 when no limit is given.
C12_PerPageClamped ==
    \A c \in callers :
        LET r == call[c]
        IN  r.op = "search_crates" /\ r.fetches # <<>> =>
                r.fetches[1].url =
                    <<"https", ":", "//crates.io/api/v1/crates?q", "=">> \o r.query
                    \o <<"&", "per_page", "=">> \o DecimalText(ClampedLimit(r.limit))

\* C13: a body that was read is returned as it is exactly when, leading white
\* space aside, it starts with an opening brace; every other body is returned
\* as the markdown parse_html makes of it.
C13_JsonPassedThrough ==
    \A c \in callers :
        LET r == call[c]
        IN  r.op = "search_crates" /\ r.pc = "done" /\ r.answer.body = "read" =>
                r.result = Some(IF StartsWith(TrimStart(r.body), <<"{">>)
                                THEN r.body
                                ELSE ParseHtml(r.body))

\* C13 witness: one call returned the JSON body as it came, the call after it
\* returned a web page without its markup.
C13_JsonThenPage ==
    \E c \in callers :
        /\ prev[c].some
        /\ prev[c].val.op = "search_crates"
        /\ prev[c].val.result = <<"{", "\"crates\"", ":", "[]", "}">>
        /\ call[c].op = "search_crates"
        /\ call[c].pc = "done"
        /\ call[c].body = <<"<html>", "No results", "</html>">>
        /\ call[c].result = Some(<<"No results">>)

\* C13 as stated: a body is returned as it is exactly when it starts with an
\* opening brace, and as markdown otherwise.
C13_BraceFirst ==
    \A c \in callers :
        LET r == call[c]
        IN  r.op = "search_crates" /\ r.pc = "done" /\ r.answer.body = "read" =>
                r.result = Some(IF StartsWith(r.body, <<"{">>)
                                THEN r.body
                                ELSE ParseHtml(r.body))

(***************************************************************************)
(* Properties of lookup_item for empty paths                               *)
(***************************************************************************)
\* C14 as stated: a call of lookup_item whose item path is empty once the
\* crate prefix is stripped issues no GET and returns the text for an invalid
\* item path.
C14_EmptyPathRejected ==
    \A c \in callers :
        LET r == call[c]
        IN  /\ r.op \in ItemOps
            /\ r.cache_key # <<>>
            /\ StripCratePrefix(r.crate_name, r.item_path) = <<>>
            =>  /\ r.fetches = <<>>
                /\ (r.pc = "done" =>
                        r.result = Some(<<"Invalid item path. Expected ", "for", "mat", ":",
                                          " module", ":", ":", "path", ":", ":", "ItemName">>))

(***************************************************************************)
(* Properties of the derived operations                                    *)
(***************************************************************************)
DerivedOps == {"lookup_item_examples", "analyze_type_relationships"}

\* C15 as stated: the derived operations work on the item path without the
\* crate prefix: their cache key is the key of the stripped path, and what
\* they build from the document is built for the stripped path, so that p::X
\* and X have one key and one payload.
C15_DerivedPrefixStripped ==
    \A c \in callers :
        LET r == call[c]
            X == StripCratePrefix(r.crate_name, r.item_path)
        IN  r.op \in DerivedOps =>
                /\ r.derived_key =
                       (IF r.op = "lookup_item_examples"
                        THEN ExamplesCacheKey(r.crate_name, r.version, X)
                        ELSE RelationshipsCacheKey(r.crate_name, r.version, X))
                /\ (r.pc = "done" /\ r.outcome = "stored" =>
                        r.result =
                            Some(IF r.op = "lookup_item_examples"
                                 THEN ExtractExamples(r.item_doc.val, r.crate_name, X)
                                 ELSE AnalyzeRelationships(r.item_doc.val, r.crate_name, X)))


(***************************************************************************)
(* Properties of the shared cache under concurrent calls                   *)
(***************************************************************************)
\* What a finished call handed to DocCache::set, read off the record of the
\* call: the document of lookup_crate (146), the document of lookup_item (860)
\* and the text of a derived operation (403, 756).
StoredBy(r) ==
    (IF r.op = "lookup_crate" /\ r.outcome = "stored"
     THEN {[key |-> r.cache_key, value |-> r.result.val]} ELSE {})
    \cup (IF r.op \in ItemOps /\ r.resolved = "stored"
          THEN {[key |-> r.cache_key, value |-> r.item_doc.val]} ELSE {})
    \cup (IF r.op \in DerivedOps /\ r.outcome = "stored"
          THEN {[key |-> r.derived_key, value |-> r.derived]} ELSE {})

\* Every client has made its call and the call has returned.
AllDone == \A c \in callers : call[c].pc = "done"

\* Two calls missed on one key: each of them stored a value under it.
BothMissed(c, d, k) ==
    /\ c # d
    /\ \E e \in StoredBy(call[c]) : e.key = k
    /\ \E e \in StoredBy(call[d]) : e.key = k

\* C16: when two concurrent calls missed on the same key and both have
\* returned, each of them for which the key is the key of its document issued
\* its own fetch, the cache maps the key to the whole value that one of the two
\* handed to set, and the other keys of the cache are exactly the keys the
\* calls stored, each with a value stored for it.
C16_BothMissOneValueKept ==
    AllDone =>
        \A c, d \in callers : \A k \in {e.key : e \in StoredBy(call[c])} :
            BothMissed(c, d, k) =>
                /\ \A b \in {c, d} : k = call[b].cache_key => call[b].fetches # <<>>
                /\ k \in DOMAIN cache
                /\ [key |-> k, value |-> cache[k]] \in StoredBy(call[c]) \cup StoredBy(call[d])
                /\ LET all == UNION {StoredBy(call[b]) : b \in callers}
                   IN  /\ DOMAIN cache = {e.key : e \in all}
                       /\ \A j \in DOMAIN cache : [key |-> j, value |-> cache[j]] \in all

\* Two calls for the same item both missed, the upstream answered them with
\* different pages, and the cache keeps the page of one of them.
C16_TwoFetchesOneKept ==
    /\ AllDone
    /\ \E c, d \in callers :
           /\ BothMissed(c, d, call[c].cache_key)
           /\ call[c].op = "lookup_item_tool" /\ call[d].op = "lookup_item_tool"
           /\ call[c].cache_key = call[d].cache_key
           /\ call[c].fetches # <<>> /\ call[d].fetches # <<>>
           /\ call[c].item_doc # call[d].item_doc
           /\ cache[call[c].cache_key] = call[d].item_doc.val

\* C17: a call that waits for the upstream (send().await or text().await)
\* does not hold the guard of the cache, and whoever holds the guard is inside
\* a get or a set, which has no await left: the guard comes free and every
\* other call's get or set can take it.
C17_NoGuardAcrossFetch ==
    /\ \A c \in callers : call[c].pc \in FetchPoints => lock # c
    /\ lock # 0 => lock \in callers /\ call[lock].pc \in LockPoints

\* One call waits for the upstream while another call holds the guard for its
\* own get or set.
C17_GuardTakenDuringFetch ==
    \E c, d \in callers :
        /\ call[c].pc \in {"item_send", "item_text"}
        /\ call[c].fetches # <<>>
        /\ lock = d
        /\ call[d].pc \in {"item_get", "item_set", "examples_set"}

\* The upstream is deterministic as far as the calls can tell: a URL that was
\* fetched twice had the same success both times, and two calls whose last GET
\* went to the same URL got the same answer and body.
DeterministicUpstream ==
    \A c, d \in callers :
        LET f == call[c].fetches
            g == call[d].fetches
        IN  /\ \A i \in 1..Len(f) : \A j \in 1..Len(g) :
                   f[i].url = g[j].url => f[i].ok = g[j].ok
            /\ (f # <<>> /\ g # <<>> /\ f[Len(f)].url = g[Len(g)].url)
                   => call[c].answer = call[d].answer

\* C18 as stated: no key leaves the cache, and with a deterministic upstream
\* every write under a key stores the same value, so that a key never had two
\* different values.
C18_WritesIdentical ==
    /\ \A e \in stored : e.key \in DOMAIN cache
    /\ (AllDone /\ DeterministicUpstream) =>
           \A a, b \in stored : a.key = b.key => a.value = b.value

\* C19 as stated: a call whose latest GET failed stores nothing: it does not
\* return by way of a set, and the cache has no entry under its derived key.
C19_OnlyResolvedStored ==
    \A c \in callers :
        LET r == call[c]
        IN  r.pc = "done" /\ AnswerFailed(r) =>
                /\ r.outcome # "stored"
                /\ r.derived_key \notin DOMAIN cache
                /\ \A e \in stored : e.value # r.result.val

\* C20: with calls abandoned at any await, every key of the cache maps to a
\* value that one set handed over whole, a call that found a key in the cache
\* got such a whole value, and no abandoned call holds the guard.
C20_WholeValuesOnly ==
    /\ \A k \in DOMAIN cache : [key |-> k, value |-> cache[k]] \in stored
    /\ \A c \in callers :
           LET r == call[c]
           IN  /\ (r.pc = "abandoned" => lock # c)
               /\ (r.outcome = "hit" =>
                       \E e \in stored : e.key \in {r.cache_key, r.derived_key}
                                         /\ e.value = r.result.val)
               /\ (r.resolved = "hit" =>
                       [key |-> r.cache_key, value |-> r.item_doc.val] \in stored)

\* A derived call stored the document of its item and was abandoned while it
\* waited for the guard to store its own text: the cache has the whole
\* document and nothing under the derived key, and another call has read the
\* document from the cache.
C20_AbandonedBetweenSets ==
    \E c, d \in callers :
        /\ call[c].pc = "abandoned"
        /\ call[d].op = "lookup_item_examples"
        /\ call[d].resolved = "hit"
        /\ call[d].cache_key \in DOMAIN cache
        /\ call[d].pc = "examples_set"
        /\ call[d].derived_key \notin DOMAIN cache
        /\ \A b \in callers : call[b].fetches = <<>>


(***************************************************************************)
(* Properties of the cache keys                                            *)
(***************************************************************************)
\* The key scheme of the contract: the components that are present, joined
\* with ":". A request without an item path has item NoneOpt.
SchemeKey(package, version, item) ==
    Join(<<package>> \o (IF version.some THEN <<version.val>> ELSE <<>>)
                     \o (IF item.some THEN <<item.val>> ELSE <<>>), <<":">>)

\* The namespace tag of a derived operation.
NamespaceTag(op) ==
    IF op = "lookup_item_examples" THEN <<"example", "s", ":">> ELSE <<"relationships", ":">>

\* C21 as stated: lookup_crate keys its document by the scheme without an item
\* path, lookup_item by the scheme with the item path stripped of the crate
\* prefix, and a derived operation by its tag followed by that same key.
C21_KeyScheme ==
    \A c \in callers :
        LET r == call[c]
            stripped == IF StartsWith(r.item_path, CratePrefix(r.crate_name))
                        THEN DropFirst(r.item_path, Len(CratePrefix(r.crate_name)))
                        ELSE r.item_path
        IN  /\ (r.op = "lookup_crate" /\ r.pc # "idle" =>
                    r.cache_key = SchemeKey(r.crate_name, r.version, NoneOpt))
            /\ (r.op \in ItemOps /\ r.cache_key # <<>> =>
                    r.cache_key = SchemeKey(r.crate_name, r.version, Some(stripped)))
            /\ (r.op \in DerivedOps /\ r.derived_key # <<>> =>
                    r.derived_key = NamespaceTag(r.op)
                                        \o SchemeKey(r.crate_name, r.version, Some(stripped)))

\* The request a call or the summary of a call stands for: package, version
\* and item path without the crate prefix.
Locator(s) ==
    [package |-> s.crate_name, version |-> s.version,
     item |-> IF StartsWith(s.item_path, CratePrefix(s.crate_name))
              THEN DropFirst(s.item_path, Len(CratePrefix(s.crate_name)))
              ELSE s.item_path]

\* The keys a call composed, each with the operation that composed it (the
\* document keys of lookup_crate and lookup_item, the derived keys) and the
\* request it was composed for.
KeysOf(s) ==
    (IF s.cache_key # <<>>
     THEN {[key |-> s.cache_key,
            kind |-> IF s.op = "lookup_crate" THEN "lookup_crate" ELSE "lookup_item",
            locator |-> Locator(s)]}
     ELSE {})
    \cup (IF s.derived_key # <<>>
          THEN {[key |-> s.derived_key, kind |-> s.op, locator |-> Locator(s)]}
          ELSE {})

\* C22 as stated: two calls of a client that composed the same key composed it
\* in the same operation for the same request, so that what the later call
\* finds under the key is what that operation stored for that request.
C22_KeysNeverShared ==
    \A c \in callers :
        prev[c].some =>
            \A a \in KeysOf(prev[c].val) : \A b \in KeysOf(call[c]) :
                a.key = b.key => a.kind = b.kind /\ a.locator = b.locator


(***************************************************************************)
(* Properties of failed and repeated calls                                 *)
(***************************************************************************)
\* lookup_crate and lookup_item as tools of their own.
PlainLookups == {"lookup_crate", "lookup_item_tool"}

\* The latest GET of the call met a transport error, a status outside
\* 200..299 or a body that could not be read.
UpstreamFailed(r) ==
    /\ r.fetches # <<>>
    /\ \/ r.answer.error
       \/ r.answer.status < 200
       \/ r.answer.status > 299
       \/ r.answer.body = "failed"

\* The cache is as the client's earlier call left it: empty, with nothing ever
\* stored, in the client's first call, and with no key but the keys of the
\* first call in its second.
CacheAsBefore(c) ==
    /\ started[c] = 1 => cache = EmptyMap /\ stored = {}
    /\ started[c] = 2 =>
           DOMAIN cache \subseteq {prev[c].val.cache_key, prev[c].val.derived_key}

\* C23: a lookup_crate or lookup_item call that ends in a failure has written
\* nothing to the cache, its key included; search_crates never takes the guard
\* of the cache and leaves the cache as it was; and a lookup that repeats a
\* failed lookup sends its GETs again.
C23_FailureLeavesCache ==
    \A c \in callers :
        LET r == call[c]
        IN  /\ (/\ r.op \in PlainLookups
                /\ r.pc = "done"
                /\ (r.outcome = "failed" \/ UpstreamFailed(r))
                =>  /\ r.outcome = "failed"
                    /\ r.cache_key \notin DOMAIN cache
                    /\ CacheAsBefore(c))
            /\ (r.op = "search_crates" =>
                    /\ r.pc \notin LockPoints
                    /\ lock # c
                    /\ CacheAsBefore(c))
            /\ (/\ Repeated(c)
                /\ r.op \in PlainLookups
                /\ prev[c].val.outcome = "failed"
                /\ r.pc = "done"
                =>  r.fetches # <<>>)

\* A lookup_item ended in a failure and left the cache without its key; the
\* same lookup again fetched and stored the page.
C23_RetryAfterFailureStores ==
    \E c \in callers :
        /\ Repeated(c)
        /\ call[c].op = "lookup_item_tool"
        /\ prev[c].val.outcome = "failed"
        /\ call[c].pc = "done"
        /\ call[c].outcome = "stored"
        /\ call[c].fetches # <<>>
        /\ DOMAIN cache = {call[c].cache_key}

\* C24: in lookup_item a body that cannot be read ends the resolution at once.
\* The GET whose body failed was the only one with a success status and is the
\* last GET of the call, the call is past its loop, what lookup_item returns
\* is the text of the body failure, and the key of the document is not in the
\* cache.
C24_BodyFailureEndsResolution ==
    \A c \in callers :
        LET r == call[c]
            n == Len(r.fetches)
        IN  r.op \in ItemOps /\ r.answer.body = "failed" =>
                /\ n >= 1 /\ n <= Len(CandidateKinds)
                /\ r.fetches[n].ok
                /\ \A i \in 1..(n - 1) : ~r.fetches[i].ok
                /\ r.fetches[n].url =
                       ItemUrl(r.crate_name, r.version, r.path, CandidateKinds[n])
                /\ r.pc \notin {"item_get", "item_send", "item_text", "item_set"}
                /\ r.resolved = "failed"
                /\ r.item_doc = Some(<<"Failed to read response body", ":", " ">>
                                         \o BodyErrorText)
                /\ (r.op = "lookup_item_tool" => r.pc = "done" /\ r.result = r.item_doc)
                /\ r.cache_key \notin DOMAIN cache

\* The struct page was not found, the enum page came with a success status and
\* a body that could not be read: the call returned after two of five GETs.
C24_SecondKindBodyFailed ==
    \E c \in callers :
        /\ call[c].op = "lookup_item_tool"
        /\ call[c].pc = "done"
        /\ call[c].answer.body = "failed"
        /\ Len(call[c].fetches) = 2
        /\ ~call[c].fetches[1].ok
        /\ call[c].result = Some(ReadBodyFailed(BodyErrorText))
        /\ cache = EmptyMap


(***************************************************************************)
(* Properties of the layering of the derived operations                    *)
(***************************************************************************)
\* C25: a derived operation that finds its derived key issues no GET; one that
\* misses resolves the item through lookup_item with at most five GETs, and
\* none when the document key is in the cache, and stores the derived key only
\* after that; when it has returned after a resolution that did not fail, both
\* keys are in the cache; and a lookup_item for the same request that follows
\* it issues no GET.
C25_DerivedLayered ==
    \A c \in callers :
        LET r == call[c]
        IN  /\ (r.op \in DerivedOps =>
                    /\ Len(r.fetches) <= Len(CandidateKinds)
                    /\ (r.outcome = "hit" => r.fetches = <<>> /\ r.cache_key = <<>>)
                    /\ (r.resolved = "hit" => r.fetches = <<>>)
                    /\ (r.pc \in {"item_get", "item_send", "item_text", "item_set",
                                  "examples_set", "relationships_set"}
                            => r.derived_key \notin DOMAIN cache)
                    /\ (r.pc = "done" /\ r.resolved \in {"stored", "hit"} =>
                            /\ r.outcome = "stored"
                            /\ r.cache_key \in DOMAIN cache
                            /\ r.derived_key \in DOMAIN cache
                            /\ cache[r.cache_key] = r.item_doc.val
                            /\ cache[r.derived_key] = r.result.val))
            /\ (/\ r.op = "lookup_item_tool"
                /\ prev[c].some
                /\ prev[c].val.op \in DerivedOps
                /\ prev[c].val.resolved \in {"stored", "hit"}
                /\ Locator(r) = Locator(prev[c].val)
                =>  /\ r.fetches = <<>>
                    /\ (r.pc = "done" => r.outcome = "hit"))

\* analyze_type_relationships for serde::Lumin fetched and stored the
\* document and its report; lookup_item for Lumin then found the document in
\* the cache.
C25_ItemHitAfterDerived ==
    \E c \in callers :
        /\ prev[c].some
        /\ prev[c].val.op = "analyze_type_relationships"
        /\ prev[c].val.resolved = "stored"
        /\ prev[c].val.item_path # call[c].item_path
        /\ call[c].op = "lookup_item_tool"
        /\ call[c].pc = "done"
        /\ call[c].outcome = "hit"
        /\ call[c].fetches = <<>>
        /\ DOMAIN cache = {prev[c].val.cache_key, prev[c].val.derived_key}


(***************************************************************************)
(* Properties of the stages of the example extractor                       *)
(***************************************************************************)
\* A level-1 or level-2 Examples heading of the contract.
IsExamplesHeading(line) ==
    ToLower(Trim(line)) \in {<<"#", " ", "example", "s">>, <<"#", "#", " ", "example", "s">>}

\* A line that opens or closes a fenced block.
IsFence(line) == StartsWith(Trim(line), <<"'''">>)

\* The lines a..b of the document are a fenced block that follows the
\* Examples heading at line h: a is the first fence after h and b the next.
BlockAfterHeading(doc_lines, h, a, b) ==
    /\ h < a /\ a < b
    /\ IsExamplesHeading(doc_lines[h])
    /\ \A i \in 1..(h - 1) : ~IsExamplesHeading(doc_lines[i])
    /\ IsFence(doc_lines[a]) /\ IsFence(doc_lines[b])
    /\ \A i \in (h + 1)..(b - 1) : i # a => ~IsFence(doc_lines[i])

\* The lines block appear in lines one after the other, unchanged.
OccursIn(block, lines) ==
    \E k \in 0..(Len(lines) - Len(block)) : SubSeq(lines, k + 1, k + Len(block)) = block

\* C26 as stated: the fenced block that follows the first Examples heading is
\* in the output from its opening to its closing fence, line for line, whatever
\* its lines are.
C26_SectionBlockVerbatim ==
    text_out.some =>
        LET doc_lines == Lines(text_in)
            out_lines == Lines(text_out.val)
        IN  \A h, a, b \in 1..Len(doc_lines) :
                BlockAfterHeading(doc_lines, h, a, b) =>
                    OccursIn(SubSeq(doc_lines, a, b), out_lines)

\* The positions of the fence lines of the document, in order.
FencePositions(doc_lines) ==
    LET at == {i \in 1..Len(doc_lines) : IsFence(doc_lines[i])}
    IN  [k \in 1..Cardinality(at) |->
            CHOOSE i \in at : Cardinality({j \in at : j < i}) = k - 1]

\* The numbers 1 to 9 as the labels write them.
LabelNumber(n) == <<"1", "2", "3", "4", "5", "6", "7", "8", "9">>[n]

\* The fenced blocks of the document, each under its label: the n-th block
\* runs from the fence that opens it to the fence that closes it, or to the
\* end of the document when no fence closes it.
NumberedBlocks(doc_lines) ==
    LET fences == FencePositions(doc_lines)
        blocks == (Len(fences) + 1) \div 2
        first(n) == fences[2 * n - 1]
        last(n) == IF 2 * n <= Len(fences) THEN fences[2 * n] ELSE Len(doc_lines)
    IN  ConcatEntries([n \in 1..blocks |->
            <<"#", "#", " ", "Example", " ", LabelNumber(n), NL, NL>>
                \o FromLines(SubSeq(doc_lines, first(n), last(n)))])

\* C27: for a document without an Examples heading and with a fence, the
\* output is the heading, the introduction and then the fenced blocks of the
\* document in their order, each whole and under the label "Example n" with n
\* counting from 1, and nothing else: no line from outside a block.
C27_BlocksNumbered ==
    text_out.some =>
        LET doc_lines == Lines(text_in)
        IN  /\ \A i \in 1..Len(doc_lines) : ~IsExamplesHeading(doc_lines[i])
            /\ \E i \in 1..Len(doc_lines) : IsFence(doc_lines[i])
            =>  text_out.val = UsageHeading \o FollowingLine \o NumberedBlocks(doc_lines)

\* A document of two fenced blocks with a line of prose between them: the
\* output has the labels Example 1 and Example 2 and not the prose.
C27_TwoBlocksAndProse ==
    /\ text_out.some
    /\ LET doc_lines == Lines(text_in)
       IN  /\ Len(FencePositions(doc_lines)) = 3
           /\ \E i \in 1..Len(doc_lines) :
                  doc_lines[i] = <<"A ", "struct", " named ", "Lumin", ".">>
           /\ \A i \in 1..Len(doc_lines) : ~IsExamplesHeading(doc_lines[i])
    /\ Contains(text_out.val, <<"#", "#", " ", "Example", " ", "2", NL>>)
    /\ ~Contains(text_out.val, <<" named ">>)

\* The kinds of the synthetic stage in the priority of the contract, each with
\* its keyword and the heading of its template.
SyntheticKinds ==
    << [keyword |-> "struct", before |-> <<"Creating and using a ">>, after |-> <<" instance">>],
       [keyword |-> "trait", before |-> <<"Implementing the ">>, after |-> <<" ", "trait">>],
       [keyword |-> "enum", before |-> <<"Using the ">>, after |-> <<" ", "enum">>],
       [keyword |-> "fn", before |-> <<"Calling the ">>, after |-> <<" function">>] >>

\* The last segment of the item path.
BareName(item_path) ==
    LET colons == {i \in 1..(Len(item_path) - 1) : item_path[i] = ":" /\ item_path[i + 1] = ":"}
    IN  IF colons = {} THEN item_path
        ELSE DropFirst(item_path, (CHOOSE i \in colons : \A j \in colons : j <= i) + 1)

\* The document names the n-th kind: in lower case it has the keyword and the
\* bare name.
KindNamed(doc_content, item_path, n) ==
    /\ Contains(ToLower(doc_content), <<SyntheticKinds[n].keyword>>)
    /\ Contains(ToLower(doc_content), ToLower(BareName(item_path)))

\* The heading of the template the contract picks: that of the first kind the
\* document names, or the generic one.
ExpectedHeading(doc_content, item_path) ==
    LET named == {n \in 1..Len(SyntheticKinds) : KindNamed(doc_content, item_path, n)}
    IN  IF named = {} THEN <<"#", "#", " ", "Generic", " ", "Example", NL>>
        ELSE LET kind == SyntheticKinds[CHOOSE n \in named : \A m \in named : n <= m]
             IN  <<"#", "#", " ">> \o kind.before \o BareName(item_path) \o kind.after \o <<NL>>

\* The document has no fence, so that the examples are generated.
NoFence(doc_content) ==
    \A i \in 1..Len(Lines(doc_content)) : ~IsFence(Lines(doc_content)[i])

\* C28: for a document without a fence the output has the template of the
\* first of struct, trait, enum, fn that the document names together with the
\* bare name, case ignored, and the generic template when it names none; the
\* templates of the four kinds say that the example is generated, and the
\* generic template says instead that no examples were found in the
\* documentation.
C28_KindByPriority ==
    text_out.some /\ NoFence(text_in) =>
        LET heading == ExpectedHeading(text_in, text_args)
            generic == <<"#", "#", " ", "Generic", " ", "Example", NL>>
        IN  /\ Contains(text_out.val, heading)
            /\ (heading # generic => Contains(text_out.val, <<"This is a generated ">>))
            /\ (heading = generic =>
                    /\ Contains(text_out.val, <<" were found in the documentation.">>)
                    /\ ~Contains(text_out.val, <<"This is a generated ">>))

\* The document names the trait with a capital and the enum and the fn in
\* lower case: the trait template is generated.
C28_TraitBeforeEnum ==
    /\ text_out.some
    /\ NoFence(text_in)
    /\ ~Contains(ToLower(text_in), <<"struct">>)
    /\ Contains(text_in, <<"Trait">>)
    /\ Contains(text_in, <<"enum">>)
    /\ Contains(text_out.val, <<"#", "#", " ", "Implementing the ", "Lumin", " ", "trait", NL>>)

\* C28 as stated: every generated result, the generic one included, says that
\* the example is generated.
C28_EveryTemplateDisclaims ==
    text_out.some /\ NoFence(text_in) => Contains(text_out.val, <<"This is a generated ">>)


(***************************************************************************)
(* Properties of the kind the two text engines infer                       *)
(***************************************************************************)
\* The kinds with what shows them in the generated example (its heading) and
\* in the report of the analyzer (its overview).
KindMarks ==
    { [example |-> <<"Creating and using a ">>, overview |-> <<" is a ", "struct", " in the ">>],
      [example |-> <<"Implementing the ">>, overview |-> <<" is a ", "trait", " in the ">>],
      [example |-> <<"Using the ">>, overview |-> <<" is a ", "enum", " in the ">>],
      [example |-> <<"Calling the ">>, overview |-> <<" is a ", "function", " in the ">>],
      [example |-> <<"Generic", " ", "Example", NL>>, overview |-> <<" is a ", "item", " in the ">>] }

\* C29 as stated: when a client had examples generated for an item and then
\* has the relationships of the same item analyzed, from the same resolved
\* document, the report names the kind whose template the example used.
C29_SameKindInferred ==
    \A c \in callers :
        /\ prev[c].some
        /\ prev[c].val.op = "lookup_item_examples"
        /\ prev[c].val.resolved = "stored"
        /\ call[c].op = "analyze_type_relationships"
        /\ call[c].crate_name = prev[c].val.crate_name
        /\ call[c].item_path = prev[c].val.item_path
        /\ call[c].version = prev[c].val.version
        /\ call[c].pc = "done"
        /\ call[c].resolved = "hit"
        =>  \A kind \in KindMarks :
                Contains(prev[c].val.result, kind.example)
                    <=> Contains(call[c].result.val, kind.overview)


(***************************************************************************)
(* Properties of the URLs                                                  *)
(***************************************************************************)
\* "{host}/"
Host == <<"https", ":", "//docs.rs/">>

\* The URL of the item page of kind k from the segments of the contract: the
\* package, the version segment, the package again, the module segments (all
\* segments of the item path but the last) and "{k}.{item_name}.html".
ItemPageUrl(package, version_segment, item_path, k) ==
    LET segments == Split(item_path, <<":", ":">>)
        modules == SubSeq(segments, 1, Len(segments) - 1)
        leaf == <<k, ".">> \o segments[Len(segments)] \o <<".", "html">>
    IN  Host \o Join(<<package>> \o version_segment \o <<package>> \o modules \o <<leaf>>,
                     <<"/">>)

\* The URL of the package page: "{host}/crate/{package}[/{version}]/".
PackagePageUrl(package, version_segment) ==
    Host \o Join(<<<<"crate">>, package>> \o version_segment, <<"/">>) \o <<"/">>

\* The version segment, present only when a version was supplied.
VersionIfSupplied(version) == IF version.some THEN <<version.val>> ELSE <<>>

\* The version segment: the version supplied, or "latest".
VersionOrLatest(version) == IF version.some THEN <<version.val>> ELSE <<<<"latest">>>>

\* C30: every GET of lookup_item goes to
\* {host}/{package}/{version or "latest"}/{package}/[{module_path}/]{k}.{item_name}.html
\* for the kind k of its turn, with the module segments present only when the
\* stripped item path has more than one segment; every GET of lookup_crate
\* goes to {host}/crate/{package}[/{version}]/, with the version segment
\* present only when a version was supplied.
C30_UrlShape ==
    \A c \in callers :
        LET r == call[c]
        IN  \A i \in 1..Len(r.fetches) :
                /\ (r.op \in ItemOps =>
                        r.fetches[i].url =
                            ItemPageUrl(r.crate_name, VersionOrLatest(r.version),
                                        Locator(r).item, CandidateKinds[i]))
                /\ (r.op = "lookup_crate" =>
                        r.fetches[i].url =
                            PackagePageUrl(r.crate_name, VersionIfSupplied(r.version)))

\* An item with a module path was looked up without a version: the struct
\* page was fetched under latest and under the module.
C30_ModuleUnderLatest ==
    \E c \in callers :
        /\ call[c].op = "lookup_item_tool"
        /\ call[c].version = NoneOpt
        /\ call[c].fetches # <<>>
        /\ call[c].fetches[1].url =
               <<"https", ":", "//docs.rs/", "example", "s", "/", "latest", "/", "example", "s",
                 "/", "serde", "/", "struct", ".", "Lumin", ".", "html">>

\* C30 as stated: the item URL has a version segment only when a version was
\* supplied.
C30_VersionOnlyWhenSupplied ==
    \A c \in callers :
        LET r == call[c]
        IN  \A i \in 1..Len(r.fetches) :
                /\ (r.op \in ItemOps =>
                        r.fetches[i].url =
                            ItemPageUrl(r.crate_name, VersionIfSupplied(r.version),
                                        Locator(r).item, CandidateKinds[i]))
                /\ (r.op = "lookup_crate" =>
                        r.fetches[i].url =
                            PackagePageUrl(r.crate_name, VersionIfSupplied(r.version)))

=============================================================================
